---- MODULE Spec2Model ----
(***************************************************************************)
(* Model of the create/update-tag action: the local Git adapter (git.js),  *)
(* the three REST clients (github.js, gitea.js, bitbucket.js), the generic *)
(* Git backend (generic.ts), the platform factory and the orchestrator     *)
(* run (index.ts, the last version in logger.ts).                          *)
(***************************************************************************)
EXTENDS Integers, Sequences, FiniteSets, TLC

\* ------------------------------------------------------------------ bounds
\* Number of commits in the repository; commits are 1..MaxCommit.
MaxCommit == 2
\* Longest raw tag_message input, in characters.
MaxMsgLen == 1
\* Number of consecutive invocations of run with the same inputs.
MaxRuns == 2
\* Number of times another actor creates the tag on the remote.
MaxOtherWrites == 1

\* ------------------------------------------------------------- basic data
\* An absent SHA (tag_sha not given; `if (!sha)`).
NoSha == 0
Commits == 1..MaxCommit
\* The commit HEAD resolves to, unless a specification sets the heads of the
\* checkout and of the remote default branch otherwise.
HeadSha == MaxCommit

\* Characters of a message: whitespace and a visible character.
Chars == {" ", "r"}
\* JavaScript undefined for an optional string.
Undef == <<"undefined">>
Strings(n) == UNION {[1..k -> Chars] : k \in 0..n}
\* JavaScript truthiness of an optional string.
Truthy(s) == s # Undef /\ s # <<>>

RECURSIVE TrimStart(_)
TrimStart(s) ==
    IF s # <<>> /\ Head(s) = " " THEN TrimStart(Tail(s)) ELSE s

RECURSIVE TrimEnd(_)
TrimEnd(s) ==
    IF s # <<>> /\ s[Len(s)] = " " THEN TrimEnd(SubSeq(s, 1, Len(s) - 1)) ELSE s

\* String.prototype.trim
Trim(s) == TrimEnd(TrimStart(s))
\* s?.trim()
OptTrim(s) == IF s = Undef THEN Undef ELSE Trim(s)

\* The message the REST clients send when none is given: `Tag ${tagName}`.
DefaultMessage == <<"T", "a", "g">>

\* ------------------------------------------------------------------- tags
\* A tag ref: absent, lightweight (points at a commit) or annotated (points
\* at a tag object that carries the message and points at the commit).
NoTag == [kind |-> "none", sha |-> NoSha, msg |-> Undef, signed |-> FALSE]
Lightweight(c) == [kind |-> "commit", sha |-> c, msg |-> Undef, signed |-> FALSE]
Annotated(c, m, s) == [kind |-> "tag", sha |-> c, msg |-> m, signed |-> s]
\* Object id of the tag object of an annotated tag (no commit has this id).
TagObjectSha(c) == MaxCommit + c
\* What `git rev-parse refs/tags/<name>` prints: the object the ref holds.
RefSha(t) == IF t.kind = "tag" THEN TagObjectSha(t.sha) ELSE t.sha

\* TagResult {sha, exists, created, updated} (tagName is the input's).
Result(s, e, c, u) == [sha |-> s, exists |-> e, created |-> c, updated |-> u]
NoResult == Result(NoSha, FALSE, FALSE, FALSE)

\* What an operation returns: the world after it, whether it returned (ok)
\* or threw, its value, and the commands or requests it issued, in order.
Ret(w, ok, val, cmds) == [w |-> w, ok |-> ok, val |-> val, cmds |-> cmds]

\* --------------------------------------------------------- Local Git adapter
\* The world w: isRepo (cwd is a Git checkout), ltag (the local tag ref),
\* nameSet/emailSet (user.name/user.email configured), rtag (the tag on
\* origin / on the hosting platform).

\* A fault injected into one operation: the kind of command or request (req)
\* that fails, and the status it fails with. NoFault injects nothing.
Fault(q, s) == [req |-> q, status |-> s]
NoFault == Fault("none", 0)
\* Faults of the local Git CLI: "tag" (git tag), "push", "push-delete"; the
\* status is git's exit code.
GitFaults == {Fault("tag", 128), Fault("push", 128), Fault("push-delete", 128)}

isGitRepository(w) == w.isRepo

tagExistsLocally(w) == w.isRepo /\ w.ltag # NoTag

\* Mutation: both keys are written whenever one of them is missing.
ensureGitUserConfigWritesBoth(w) ==
    LET reads == <<"config --get user.name", "config --get user.email">>
        writes == <<"config --local user.name", "config --local user.email">>
    IN  IF w.nameSet /\ w.emailSet
        THEN Ret(w, TRUE, FALSE, reads)
        ELSE IF ~w.isRepo
        THEN Ret(w, FALSE, FALSE, reads \o <<Head(writes)>>)
        ELSE Ret([w EXCEPT !.nameSet = TRUE, !.emailSet = TRUE], TRUE, TRUE, reads \o writes)

ensureGitUserConfig(w) ==
    LET reads == <<"config --get user.name", "config --get user.email">>
        writeName == IF ~w.nameSet THEN <<"config --local user.name">> ELSE <<>>
        writeEmail == IF ~w.emailSet THEN <<"config --local user.email">> ELSE <<>>
    IN  IF w.nameSet /\ w.emailSet
        THEN Ret(w, TRUE, FALSE, reads)
        ELSE IF ~w.isRepo
        THEN \* `git config --local` outside a repository exits non-zero
             Ret(w, FALSE, FALSE, reads \o <<Head(writeName \o writeEmail)>>)
        ELSE Ret([w EXCEPT !.nameSet = TRUE, !.emailSet = TRUE], TRUE, TRUE,
                 reads \o writeName \o writeEmail)

\* message?.trim() || undefined
NormalizeMessage(m) == IF Truthy(OptTrim(m)) THEN Trim(m) ELSE Undef

\* Whether the tag-creating command exits non-zero.
TagCmdFails(w, fault) == ~w.isRepo \/ fault.req = "tag"

getTagSha(w) == RefSha(w.ltag)

\* The git tag command createTag runs, and the tag it writes.
TagCommand(options, normalizedMessage) ==
    IF Truthy(normalizedMessage)
    THEN (IF options.gpgSign THEN "tag -s -F -" ELSE "tag -a -F -")
    ELSE "tag"

NewTag(options, normalizedMessage) ==
    IF Truthy(normalizedMessage)
    THEN Annotated(options.sha, normalizedMessage, options.gpgSign)
    ELSE Lightweight(options.sha)

\* createTag: Verify tag was created, and the result.
createTagVerified(w, cmds, deleted) ==
    Ret(w, TRUE, Result(getTagSha(w), FALSE, TRUE, deleted), cmds)

\* createTag: Create tag (w and cmds are after the optional deletion).
createTagWrite(options, fault, normalizedMessage, w, cmds, deleted) ==
    IF TagCmdFails(w, fault)
    THEN Ret(w, FALSE, NoResult, cmds \o <<TagCommand(options, normalizedMessage)>>)
    ELSE createTagVerified([w EXCEPT !.ltag = NewTag(options, normalizedMessage)],
             cmds \o <<TagCommand(options, normalizedMessage), "rev-parse refs/tags">>,
             deleted)

\* createTag: after ensureGitUserConfig (cfg) and the existence check.
createTagChecked(options, fault, normalizedMessage, cfg, exists) ==
    IF ~cfg.ok THEN Ret(cfg.w, FALSE, NoResult, cfg.cmds)
    ELSE IF exists /\ ~options.force
    THEN Ret(cfg.w, TRUE, Result(options.sha, TRUE, FALSE, FALSE),
             cfg.cmds \o <<"rev-parse --verify">>)
    ELSE IF exists /\ options.force
    THEN createTagWrite(options, fault, normalizedMessage,
             [cfg.w EXCEPT !.ltag = NoTag],
             cfg.cmds \o <<"rev-parse --verify", "tag -d">>, TRUE)
    ELSE createTagWrite(options, fault, normalizedMessage, cfg.w,
             cfg.cmds \o <<"rev-parse --verify">>, FALSE)

\* createTag: Check if tag already exists.
createTagConfigured(options, fault, normalizedMessage, cfg) ==
    createTagChecked(options, fault, normalizedMessage, cfg, tagExistsLocally(cfg.w))

\* createTag: Ensure git user config is set for annotated tags.
createTagNormalized(options, w, fault, normalizedMessage) ==
    createTagConfigured(options, fault, normalizedMessage,
        IF Truthy(normalizedMessage) \/ options.gpgSign
        THEN ensureGitUserConfig(w)
        ELSE Ret(w, TRUE, FALSE, <<>>))

createTag(options, w, fault) ==
    createTagNormalized(options, w, fault, NormalizeMessage(options.message))

\* git push <remote> <tag> [--force]: rejected when the remote holds another
\* object under that tag and --force is not given.
pushTag(force, w, fault) ==
    IF ~w.isRepo \/ w.ltag = NoTag \/ fault.req = "push"
       \/ (w.rtag # NoTag /\ w.rtag # w.ltag /\ ~force)
    THEN Ret(w, FALSE, FALSE, <<IF force THEN "push --force" ELSE "push">>)
    ELSE Ret([w EXCEPT !.rtag = w.ltag], TRUE, TRUE,
             <<IF force THEN "push --force" ELSE "push">>)

\* git push <remote> --delete <tag>
deleteTagRemote(w, fault) ==
    IF ~w.isRepo \/ w.rtag = NoTag \/ fault.req = "push-delete"
    THEN Ret(w, FALSE, FALSE, <<"push --delete">>)
    ELSE Ret([w EXCEPT !.rtag = NoTag], TRUE, TRUE, <<"push --delete">>)

\* ---------------------------------------------------------- Generic backend
\* config: pushTag ("true", "false" or "undefined"; run() passes the
\* push_tag input), hasUrl (repoInfo.url is set).
\* One operation (first) followed by another (second) that returned.
After(first, second) ==
    [second EXCEPT !.cmds = first.cmds \o @]

\* Mutation: a failed push fails the operation.
PushFailureThrows(made, pushed) ==
    Ret(pushed.w, pushed.ok, made.val, made.cmds \o pushed.cmds)

\* A created tag followed by a push whose failure is logged and swallowed.
WithPush(made, pushed) ==
    Ret(pushed.w, TRUE, made.val, made.cmds \o pushed.cmds)

GenericTagExists(w) == Ret(w, TRUE, tagExistsLocally(w), <<"rev-parse --verify">>)

\* GenericGitAPI.createTag: Push to remote if pushTag is enabled.
GenericCreateTagMade(config, force, fault, made) ==
    IF made.ok /\ config.pushTag # "false" /\ config.hasUrl
    THEN WithPush(made, pushTag(force, made.w, fault))
    ELSE made

GenericCreateTag(options, config, w, fault) ==
    IF options.sha = NoSha /\ ~w.isRepo
    THEN Ret(w, FALSE, NoResult, <<"rev-parse HEAD">>)
    ELSE GenericCreateTagMade(config, options.force, fault,
             createTag([options EXCEPT !.sha = IF @ = NoSha THEN w.head ELSE @],
                       w, fault))

\* GenericGitAPI.updateTag: Create new tag, after the remote deletion.
GenericUpdateTagDeleted(options, config, fault, deleted) ==
    After(deleted, GenericCreateTag(options, config, deleted.w, fault))

GenericUpdateTag(options, config, w, fault) ==
    GenericUpdateTagDeleted(options, config, fault,
        IF config.hasUrl THEN deleteTagRemote(w, fault) ELSE Ret(w, TRUE, FALSE, <<>>))

\* ------------------------------------------------------------- REST clients
\* A fault injected into one client call: the kind of request that is
\* answered with the given status instead of what the server would answer.
\* Request kinds: "get" (GET the tag ref), "del" (DELETE the tag ref),
\* "post" (the tag-creating POST), "ref" (POST of the ref), "head" (the GETs
\* of getHeadSha).
HttpFaults == {Fault("get", 500), Fault("del", 500), Fault("del", 405),
               Fault("post", 500), Fault("post", 404),
               Fault("ref", 500), Fault("head", 500)}

\* The hosting server's answer to GET <tag ref>.
GetStatus(w, fault) ==
    IF fault.req = "get" THEN fault.status
    ELSE IF w.rtag # NoTag THEN 200 ELSE 404

\* The hosting server's answer to DELETE <tag ref>.
DeleteStatus(w, fault) ==
    IF fault.req = "del" THEN fault.status
    ELSE IF w.rtag # NoTag THEN 204 ELSE 404

\* The hosting server's answer to a POST that creates the tag (or its ref).
PostStatus(q, w, fault) ==
    IF fault.req = q THEN fault.status
    ELSE IF w.rtag = NoTag THEN 201 ELSE 409

\* What the server says in its answer to a creating POST that it refuses
\* because the tag is there.
PostSaid(q, w, fault) ==
    IF fault.req # q /\ w.rtag # NoTag THEN <<"tag already exists">> ELSE <<>>

\* HttpClient: a non-2xx response is thrown as an error; status 0 stands for
\* a request that got no response.
IsSuccess(status) == status \in 200..299

\* HttpClient: the message of the error thrown embeds the numeric status
\* code, followed by what the server said; the error of a request that got
\* no response carries no status code.
ErrorMessage(status, said) ==
    IF status = 0 THEN <<"fetch failed">> ELSE <<ToString(status)>> \o said

\* error.message.includes(text)
Includes(message, text) == \E k \in DOMAIN message : message[k] = text

\* Mutation: every failed GET reads as "the tag does not exist".
tagExistsSwallowsErrors(w, fault) ==
    Ret(w, TRUE, IsSuccess(GetStatus(w, fault)), <<"GET tag">>)

\* tagExists of GitHubAPI, GiteaAPI and BitbucketAPI (the same code).
tagExists(w, fault) ==
    LET s == GetStatus(w, fault)
    IN  IF IsSuccess(s) THEN Ret(w, TRUE, TRUE, <<"GET tag">>)
        ELSE IF Includes(ErrorMessage(s, <<>>), "404") THEN Ret(w, TRUE, FALSE, <<"GET tag">>)
        ELSE Ret(w, FALSE, FALSE, <<"GET tag">>)

\* Status codes deleteTag looks for in the message to treat the tag as
\* "already gone".
DeleteTolerates(platform) == IF platform = "gitea" THEN {"404", "405"} ELSE {"404"}

\* Mutation: deleteTag tolerates 405 on every platform.
deleteTagTolerates405(platform, w, fault) ==
    LET s == DeleteStatus(w, fault)
    IN  IF IsSuccess(s) THEN Ret([w EXCEPT !.rtag = NoTag], TRUE, TRUE, <<"DELETE tag">>)
        ELSE IF s \in {404, 405} THEN Ret(w, TRUE, FALSE, <<"DELETE tag">>)
        ELSE Ret(w, FALSE, FALSE, <<"DELETE tag">>)

\* deleteTag of the three REST clients.
deleteTag(platform, w, fault) ==
    LET s == DeleteStatus(w, fault)
    IN  IF IsSuccess(s) THEN Ret([w EXCEPT !.rtag = NoTag], TRUE, TRUE, <<"DELETE tag">>)
        ELSE IF \E code \in DeleteTolerates(platform) : Includes(ErrorMessage(s, <<>>), code)
        THEN Ret(w, TRUE, FALSE, <<"DELETE tag">>)
        ELSE Ret(w, FALSE, FALSE, <<"DELETE tag">>)

\* message || `Tag ${tagName}`
MessageOrDefault(m) == IF Truthy(m) THEN m ELSE DefaultMessage

\* Mutation: the existing tag is not deleted before the creation.
DeleteNothing(platform, w, fault, exists) == Ret(w, TRUE, FALSE, <<>>)

\* createTag of a REST client: Delete existing tag if force is enabled.
DeleteIfExists(platform, w, fault, exists) ==
    IF exists THEN deleteTag(platform, w, fault) ELSE Ret(w, TRUE, FALSE, <<>>)

\* GitHubAPI.createTag: POST git/tags (the tag object), then POST git/refs.
GitHubPost(options, fault, exists, deleted) ==
    IF ~deleted.ok THEN Ret(deleted.w, FALSE, NoResult, exists.cmds \o deleted.cmds)
    ELSE IF fault.req = "post" /\ ~IsSuccess(fault.status)
    THEN Ret(deleted.w, FALSE, NoResult, exists.cmds \o deleted.cmds \o <<"POST tag">>)
    ELSE IF ~IsSuccess(PostStatus("ref", deleted.w, fault))
    THEN Ret(deleted.w, FALSE, NoResult,
             exists.cmds \o deleted.cmds \o <<"POST tag", "POST ref">>)
    ELSE Ret([deleted.w EXCEPT !.rtag =
                  Annotated(options.sha, MessageOrDefault(options.message), FALSE)],
             TRUE, Result(options.sha, FALSE, TRUE, exists.val /\ options.force),
             exists.cmds \o deleted.cmds \o <<"POST tag", "POST ref">>)

\* Mutation: createTag creates whatever its existence check answered.
GitHubCreateTagUnchecked(options, w, fault, exists) ==
    IF ~exists.ok THEN Ret(w, FALSE, NoResult, exists.cmds)
    ELSE GitHubPost(options, fault, exists, Ret(w, TRUE, FALSE, <<>>))

GitHubCreateTagChecked(options, w, fault, exists) ==
    IF ~exists.ok THEN Ret(w, FALSE, NoResult, exists.cmds)
    ELSE IF exists.val /\ ~options.force
    THEN Ret(w, TRUE, Result(options.sha, TRUE, FALSE, FALSE), exists.cmds)
    ELSE GitHubPost(options, fault, exists, DeleteIfExists("github", w, fault, exists.val))

GitHubCreateTag(options, w, fault) ==
    GitHubCreateTagChecked(options, w, fault, tagExists(w, fault))

GitHubUpdateTagDeleted(options, fault, deleted) ==
    IF ~deleted.ok THEN Ret(deleted.w, FALSE, NoResult, deleted.cmds)
    ELSE After(deleted, GitHubCreateTag(options, deleted.w, fault))

GitHubUpdateTag(options, w, fault) ==
    GitHubUpdateTagDeleted(options, fault, deleteTag("github", w, fault))

\* GiteaAPI.createTag: the result of a creation that went through.
GiteaCreated(options, existsOriginal) ==
    Result(options.sha, existsOriginal \/ options.force, ~existsOriginal, options.force)

\* Mutation: a creation refused because the tag exists is thrown.
GiteaPostedThrowsConflict(options, fault, existsOriginal, w, cmds, status, message) ==
    IF IsSuccess(status)
    THEN Ret([w EXCEPT !.rtag =
                  Annotated(options.sha, MessageOrDefault(options.message), FALSE)],
             TRUE, GiteaCreated(options, existsOriginal), cmds \o <<"POST tag">>)
    ELSE Ret(w, FALSE, NoResult, cmds \o <<"POST tag">>)

\* Mutation: a creation refused with 404 or 405 is thrown, without the
\* fallback to the refs endpoint.
GiteaPostedNoFallback(options, fault, existsOriginal, w, cmds, status, message) ==
    IF IsSuccess(status)
    THEN Ret([w EXCEPT !.rtag =
                  Annotated(options.sha, MessageOrDefault(options.message), FALSE)],
             TRUE, GiteaCreated(options, existsOriginal), cmds \o <<"POST tag">>)
    ELSE IF Includes(message, "409") /\ Includes(message, "tag already exists")
    THEN Ret(w, TRUE, Result(options.sha, TRUE, FALSE, FALSE), cmds \o <<"POST tag">>)
    ELSE Ret(w, FALSE, NoResult, cmds \o <<"POST tag">>)

\* GiteaAPI.createTag: POST tags answered with status, the error thrown for a
\* non-2xx status carrying message; 409 with "tag already exists" is a tag
\* that is there, 404/405 fall back to POST git/refs (a lightweight tag).
GiteaPosted(options, fault, existsOriginal, w, cmds, status, message) ==
    IF IsSuccess(status)
    THEN Ret([w EXCEPT !.rtag =
                  Annotated(options.sha, MessageOrDefault(options.message), FALSE)],
             TRUE, GiteaCreated(options, existsOriginal), cmds \o <<"POST tag">>)
    ELSE IF Includes(message, "409") /\ Includes(message, "tag already exists")
    THEN Ret(w, TRUE, Result(options.sha, TRUE, FALSE, FALSE), cmds \o <<"POST tag">>)
    ELSE IF Includes(message, "405") \/ Includes(message, "404")
    THEN (IF IsSuccess(PostStatus("ref", w, fault))
          THEN Ret([w EXCEPT !.rtag = Lightweight(options.sha)], TRUE,
                   GiteaCreated(options, existsOriginal),
                   cmds \o <<"POST tag", "POST ref">>)
          ELSE Ret(w, FALSE, NoResult, cmds \o <<"POST tag", "POST ref">>))
    ELSE Ret(w, FALSE, NoResult, cmds \o <<"POST tag">>)

GiteaPost(options, fault, exists, deleted) ==
    IF ~deleted.ok THEN Ret(deleted.w, FALSE, NoResult, exists.cmds \o deleted.cmds)
    ELSE GiteaPosted(options, fault, exists.val, deleted.w, exists.cmds \o deleted.cmds,
                     PostStatus("post", deleted.w, fault),
                     ErrorMessage(PostStatus("post", deleted.w, fault),
                                  PostSaid("post", deleted.w, fault)))

GiteaCreateTagChecked(options, w, fault, exists) ==
    IF ~exists.ok THEN Ret(w, FALSE, NoResult, exists.cmds)
    ELSE IF exists.val /\ ~options.force
    THEN Ret(w, TRUE, Result(options.sha, TRUE, FALSE, FALSE), exists.cmds)
    ELSE GiteaPost(options, fault, exists, DeleteIfExists("gitea", w, fault, exists.val))

GiteaCreateTag(options, w, fault) ==
    GiteaCreateTagChecked(options, w, fault, tagExists(w, fault))

GiteaUpdateTagDeleted(options, fault, deleted) ==
    IF ~deleted.ok THEN Ret(deleted.w, FALSE, NoResult, deleted.cmds)
    ELSE After(deleted, GiteaCreateTag([options EXCEPT !.force = TRUE], deleted.w, fault))

GiteaUpdateTag(options, w, fault) ==
    GiteaUpdateTagDeleted(options, fault, deleteTag("gitea", w, fault))

\* BitbucketAPI.createTag: POST refs/tags.
BitbucketPost(options, fault, exists, deleted) ==
    IF ~deleted.ok THEN Ret(deleted.w, FALSE, NoResult, exists.cmds \o deleted.cmds)
    ELSE IF ~IsSuccess(PostStatus("post", deleted.w, fault))
    THEN Ret(deleted.w, FALSE, NoResult, exists.cmds \o deleted.cmds \o <<"POST tag">>)
    ELSE Ret([deleted.w EXCEPT !.rtag =
                  Annotated(options.sha, MessageOrDefault(options.message), FALSE)],
             TRUE, Result(options.sha, FALSE, TRUE, exists.val /\ options.force),
             exists.cmds \o deleted.cmds \o <<"POST tag">>)

BitbucketCreateTagChecked(options, w, fault, exists) ==
    IF ~exists.ok THEN Ret(w, FALSE, NoResult, exists.cmds)
    ELSE IF exists.val /\ ~options.force
    THEN Ret(w, TRUE, Result(options.sha, TRUE, FALSE, FALSE), exists.cmds)
    ELSE BitbucketPost(options, fault, exists,
                       DeleteIfExists("bitbucket", w, fault, exists.val))

BitbucketCreateTag(options, w, fault) ==
    BitbucketCreateTagChecked(options, w, fault, tagExists(w, fault))

BitbucketUpdateTagDeleted(options, fault, deleted) ==
    IF ~deleted.ok THEN Ret(deleted.w, FALSE, NoResult, deleted.cmds)
    ELSE After(deleted, BitbucketCreateTag(options, deleted.w, fault))

BitbucketUpdateTag(options, w, fault) ==
    BitbucketUpdateTagDeleted(options, fault, deleteTag("bitbucket", w, fault))

\* getHeadSha of the REST clients: default branch, then its ref.
RestGetHeadSha(w, fault) ==
    IF fault.req = "head" /\ ~IsSuccess(fault.status)
    THEN Ret(w, FALSE, NoSha, <<"GET repo">>)
    ELSE Ret(w, TRUE, w.rhead, <<"GET repo", "GET branch">>)

\* getHeadSha of the local adapter / the generic backend.
getHeadSha(w) ==
    IF w.isRepo THEN Ret(w, TRUE, w.head, <<"rev-parse HEAD">>)
    ELSE Ret(w, FALSE, NoSha, <<"rev-parse HEAD">>)

\* --------------------------------------------------------- Platform factory
Platforms == {"github", "gitea", "bitbucket"}
Backends == Platforms \cup {"generic"}
RepoTypes == Backends \cup {"auto"}

\* Hostnames are sequences of labels; upper-case labels stand for hostnames
\* written in capitals.
Labels == {"github", "GITHUB", "gitea", "mygitea", "bitbucket", "git", "gist",
           "example", "com", "org"}
LowerLabel(l) == IF l = "GITHUB" THEN "github" ELSE l
ToLowerCase(h) == [i \in DOMAIN h |-> LowerLabel(h[i])]
\* Whether a (lower-case) label contains the word.
LabelIncludes(l, word) == l = word \/ (word = "gitea" /\ l = "mygitea")
HostIncludes(h, word) == \E i \in DOMAIN h : LabelIncludes(h[i], word)
HostEndsWith(h, suffix) ==
    Len(h) >= Len(suffix) /\ SubSeq(h, Len(h) - Len(suffix) + 1, Len(h)) = suffix

\* A repository URL: absent, not parseable as a URL, or a URL with a hostname.
NoUrl == [kind |-> "none", host |-> <<>>]
InvalidUrl == [kind |-> "invalid", host |-> <<>>]
Url(h) == [kind |-> "url", host |-> h]
Hosts == {<<"github", "com">>, <<"GITHUB", "com">>, <<"gist", "github", "com">>,
          <<"github", "example", "com">>, <<"gitea", "com">>,
          <<"mygitea", "example", "com">>, <<"bitbucket", "org">>,
          <<"bitbucket", "example", "com">>, <<"gitea", "github", "com">>,
          <<"git", "example", "com">>}
Urls == {NoUrl, InvalidUrl} \cup {Url(h) : h \in Hosts}

\* detectFromUrlByHostname of each platform module.
HostnameRule(platform, host) ==
    LET h == ToLowerCase(host)
    IN  CASE platform = "github" -> HostEndsWith(h, <<"github", "com">>)
          [] platform = "gitea" -> HostIncludes(h, "gitea")
          [] platform = "bitbucket" -> HostIncludes(h, "bitbucket")
          [] OTHER -> FALSE

\* The fixed order in which platforms are tried, by hostname and by probe.
DetectionOrder == <<"github", "gitea", "bitbucket">>

\* Outcome of probing one platform's discovery endpoint.
ProbeOutcomes == {"ok", "status", "error", "timeout"}

\* First platform of the order that is in the set S; "none" when there is none.
FirstOf(S) ==
    IF \A i \in DOMAIN DetectionOrder : DetectionOrder[i] \notin S THEN "none"
    ELSE DetectionOrder[CHOOSE i \in DOMAIN DetectionOrder :
                            /\ DetectionOrder[i] \in S
                            /\ \A j \in 1..(i - 1) : DetectionOrder[j] \notin S]

\* Tier 2: the first platform whose hostname rule matches.
DetectByHostname(host) == FirstOf({p \in Platforms : HostnameRule(p, host)})

\* Mutation of the probing: every candidate is probed, whatever answers.
ProbedAll(i, probes) == SubSeq(DetectionOrder, i, Len(DetectionOrder))

\* Tier 3: the platforms probed, in order, up to the first that answers ok.
RECURSIVE ProbedFrom(_, _)
ProbedFrom(i, probes) ==
    IF i > Len(DetectionOrder) THEN <<>>
    ELSE IF probes[DetectionOrder[i]] = "ok" THEN <<DetectionOrder[i]>>
    ELSE <<DetectionOrder[i]>> \o ProbedFrom(i + 1, probes)

DetectByProbe(probes) == FirstOf({p \in Platforms : probes[p] = "ok"})

\* What the factory returns: the platform tag (the backend is of that kind),
\* whether it threw, whether it looked at the hostname, what it probed.
Detected(platform, byHost, probed) ==
    [platform |-> platform, api |-> platform, ok |-> TRUE,
     hostInspected |-> byHost, probed |-> probed]

\* Mutations of the factory: detection run before the override is looked at;
\* probing before the hostname; an unparseable URL raised as an error.
createPlatformAPIDetectFirst(url, repoType, probes) ==
    IF url.kind = "url" /\ DetectByHostname(url.host) # "none"
    THEN Detected(DetectByHostname(url.host), TRUE, <<>>)
    ELSE IF repoType # "auto" THEN Detected(repoType, FALSE, <<>>)
    ELSE IF url.kind # "url" THEN Detected("generic", FALSE, <<>>)
    ELSE IF DetectByProbe(probes) # "none"
    THEN Detected(DetectByProbe(probes), TRUE, ProbedFrom(1, probes))
    ELSE Detected("generic", TRUE, ProbedFrom(1, probes))

createPlatformAPIProbeFirst(url, repoType, probes) ==
    IF repoType # "auto" THEN Detected(repoType, FALSE, <<>>)
    ELSE IF url.kind # "url" THEN Detected("generic", FALSE, <<>>)
    ELSE IF DetectByProbe(probes) # "none"
    THEN Detected(DetectByProbe(probes), FALSE, ProbedFrom(1, probes))
    ELSE IF DetectByHostname(url.host) # "none"
    THEN Detected(DetectByHostname(url.host), TRUE, ProbedFrom(1, probes))
    ELSE Detected("generic", TRUE, ProbedFrom(1, probes))

createPlatformAPIThrows(url, repoType, probes) ==
    IF repoType # "auto" THEN Detected(repoType, FALSE, <<>>)
    ELSE IF url.kind = "invalid" THEN [Detected("generic", FALSE, <<>>) EXCEPT !.ok = FALSE]
    ELSE IF url.kind # "url" THEN Detected("generic", FALSE, <<>>)
    ELSE IF DetectByHostname(url.host) # "none"
    THEN Detected(DetectByHostname(url.host), TRUE, <<>>)
    ELSE IF DetectByProbe(probes) # "none"
    THEN Detected(DetectByProbe(probes), TRUE, ProbedFrom(1, probes))
    ELSE Detected("generic", TRUE, ProbedFrom(1, probes))

createPlatformAPI(url, repoType, probes) ==
    IF repoType # "auto" THEN Detected(repoType, FALSE, <<>>)
    ELSE IF url.kind # "url" THEN Detected("generic", FALSE, <<>>)
    ELSE IF DetectByHostname(url.host) # "none"
    THEN Detected(DetectByHostname(url.host), TRUE, <<>>)
    ELSE IF DetectByProbe(probes) # "none"
    THEN Detected(DetectByProbe(probes), TRUE, ProbedFrom(1, probes))
    ELSE Detected("generic", TRUE, ProbedFrom(1, probes))

\* ------------------------------------------------------------------ Inputs
\* A repository string: not given, "owner/repo", a URL with an owner/repo
\* path, or some other text.
NoRepo == [kind |-> "none", host |-> <<>>]
Slug == [kind |-> "slug", host |-> <<>>]
OtherText == [kind |-> "other", host |-> <<>>]

\* The environment variables getRepositoryInfo falls back to.
NoEnv == [GITEA_REPOSITORY |-> FALSE, GITHUB_REPOSITORY |-> FALSE]
GitHubEnv == [GITEA_REPOSITORY |-> FALSE, GITHUB_REPOSITORY |-> TRUE]

\* getOptionalInput: the empty string reads as undefined.
getOptionalInput(s) == IF s = <<>> THEN Undef ELSE s

\* tag_name as the workflow writes it: empty, blank, plain, padded, and one
\* with a forward slash.
TagNames == {<<>>, <<" ">>, <<"v">>, <<" ", "v">>, <<"v", "/", "v">>}
HasSlash(s) == \E i \in DOMAIN s : s[i] = "/"

\* repo_type as the workflow writes it: not given, a valid type in either
\* case, or something else.
RawRepoTypes == RepoTypes \cup {"", "GitHub", "svn"}
\* core.getInput('repo_type') || 'auto', then value.toLowerCase()
NormalizeRepoType(value) ==
    IF value = "" THEN "auto" ELSE IF value = "GitHub" THEN "github" ELSE value

\* base_url: not given, a well-formed URL, or text that new URL() rejects.
BaseUrls == {NoUrl, InvalidUrl, Url(<<"gitea", "example", "com">>)}

\* The messages of the errors getInputs throws; NoError when it returns.
NoError == "none"
TagNameRequired == "tag_name is required and cannot be empty"
InvalidTagName == "Invalid tag name: Tag names cannot contain forward slashes."
InvalidRepoType == "Invalid repo_type"
GpgSignRequiresMessage == "gpg_sign requires tag_message"
InvalidBaseUrl == "Invalid base_url format"

\* Mutation: the inputs are not validated.
NoValidation(raw) == NoError

\* getInputs: the first validation that throws, in the order of the code.
\* (The gpg_key_id check cannot throw: an empty gpg_key_id reads as undefined.)
ValidationError(raw) ==
    IF raw.tag_name = <<>> \/ Trim(raw.tag_name) = <<>> THEN TagNameRequired
    ELSE IF HasSlash(raw.tag_name) THEN InvalidTagName
    ELSE IF NormalizeRepoType(raw.repo_type) \notin RepoTypes THEN InvalidRepoType
    ELSE IF raw.gpg_sign /\ ~Truthy(getOptionalInput(raw.tag_message))
    THEN GpgSignRequiresMessage
    ELSE IF raw.base_url.kind = "invalid" THEN InvalidBaseUrl
    ELSE NoError

\* getInputs, after validation: ok is FALSE when it threw error.
getInputsValidated(raw, error) ==
    [ok |-> error = NoError,
     error |-> error,
     tagName |-> Trim(raw.tag_name),
     tagMessage |-> OptTrim(getOptionalInput(raw.tag_message)),
     tagSha |-> raw.tag_sha,
     repository |-> raw.repository,
     updateExisting |-> raw.update_existing,
     gpgSign |-> raw.gpg_sign,
     repoType |-> NormalizeRepoType(raw.repo_type),
     force |-> raw.force,
     pushTag |-> raw.push_tag]

getInputs(raw) == getInputsValidated(raw, ValidationError(raw))

NoRepoInfo == [found |-> FALSE, url |-> NoUrl, platform |-> "auto"]
RepoInfo(url) == [found |-> TRUE, url |-> url, platform |-> "auto"]

parseRepository(repository) ==
    CASE repository.kind = "url" -> RepoInfo(repository)
      [] repository.kind = "slug" -> RepoInfo(NoUrl)
      [] OTHER -> NoRepoInfo

getLocalRepositoryInfo(w) ==
    IF ~w.isRepo THEN NoRepoInfo ELSE parseRepository(w.origin)

\* Mutation: the environment variables are consulted before the checkout.
getRepositoryInfoEnvFirst(repository, w) ==
    LET parsed == parseRepository(repository)
        local == getLocalRepositoryInfo(w)
    IN  IF parsed.found THEN parsed
        ELSE IF w.env.GITEA_REPOSITORY \/ w.env.GITHUB_REPOSITORY THEN RepoInfo(NoUrl)
        ELSE IF local.found THEN local
        ELSE NoRepoInfo

getRepositoryInfo(repository, w) ==
    LET parsed == parseRepository(repository)
        local == getLocalRepositoryInfo(w)
    IN  IF parsed.found THEN parsed
        ELSE IF local.found THEN local
        ELSE IF w.env.GITEA_REPOSITORY \/ w.env.GITHUB_REPOSITORY THEN RepoInfo(NoUrl)
        ELSE NoRepoInfo

\* ------------------------------------------------------------ Backends
\* The store a backend reads and writes: the local repository for the
\* generic backend, the hosting server for the REST clients.
StoreTag(platform, w) == IF platform = "generic" THEN w.ltag ELSE w.rtag

ApiTagExists(platform, w, fault) ==
    IF platform = "generic" THEN GenericTagExists(w) ELSE tagExists(w, fault)

ApiCreateTag(platform, options, config, w, fault) ==
    CASE platform = "github" -> GitHubCreateTag(options, w, fault)
      [] platform = "gitea" -> GiteaCreateTag(options, w, fault)
      [] platform = "bitbucket" -> BitbucketCreateTag(options, w, fault)
      [] OTHER -> GenericCreateTag(options, config, w, fault)

ApiUpdateTag(platform, options, config, w, fault) ==
    CASE platform = "github" -> GitHubUpdateTag(options, w, fault)
      [] platform = "gitea" -> GiteaUpdateTag(options, w, fault)
      [] platform = "bitbucket" -> BitbucketUpdateTag(options, w, fault)
      [] OTHER -> GenericUpdateTag(options, config, w, fault)

ApiGetHeadSha(platform, w, fault) ==
    IF platform = "generic" THEN getHeadSha(w) ELSE RestGetHeadSha(w, fault)

\* ------------------------------------------------------------ Orchestrator
VARIABLES
    world,          \* the checkout, its configuration, the environment, the remote
    actionInputs,   \* the raw inputs the workflow passes to the action
    pc,             \* where the current run() is
    ctx,            \* the locals of the current run()
    outputs,        \* the action outputs set by the current run()
    hist,           \* one record per finished run(), oldest first
    call            \* a direct call of a library function and what it returned

vars == <<world, actionInputs, pc, ctx, outputs, hist, call>>

Faults == {NoFault} \cup GitFaults \cup HttpFaults
ProbeResults == [Platforms -> ProbeOutcomes]
AllProbesFail == [p \in Platforms |-> "status"]
\* The probe answers a run is given: no platform answers, or exactly one does.
OneAnswers(q) == [p \in Platforms |-> IF p = q THEN "ok" ELSE "status"]
RunProbeResults == {AllProbesFail} \cup {OneAnswers(q) : q \in Platforms}
\* The probe answers that can make a difference to the factory.
ProbeChoices(url, repoType) ==
    IF repoType = "auto" /\ url.kind = "url" /\ DetectByHostname(url.host) = "none"
    THEN RunProbeResults ELSE {AllProbesFail}

\* What the run has reported: whether the outputs are set and their values,
\* whether core.setFailed was called and with which message.
NoOutputs == [set |-> FALSE, failed |-> FALSE, error |-> NoError, tag_sha |-> NoSha,
              tag_exists |-> FALSE, tag_updated |-> FALSE, tag_created |-> FALSE,
              platform |-> "auto"]

NoCtx(w) ==
    [before |-> w,
     inputs |-> getInputs([tag_name |-> <<"v">>, tag_message |-> <<>>,
                           tag_sha |-> NoSha, repository |-> NoRepo,
                           update_existing |-> FALSE, gpg_sign |-> FALSE,
                           repo_type |-> "auto", base_url |-> NoUrl,
                           force |-> FALSE, push_tag |-> TRUE]),
     repoInfo |-> NoRepoInfo, useLocalGit |-> FALSE, usePlatformAPI |-> FALSE,
     sha |-> NoSha, shaPlatform |-> "none", api |-> "none", exists |-> Ret(w, FALSE, FALSE, <<>>),
     result |-> NoResult, cmds |-> <<>>, calls |-> <<>>, error |-> NoError]

NoCall == [op |-> "none"]

\* The record kept of a finished run: whether it succeeded, the world before
\* and after it, the platform and SHA it resolved, the result its backend
\* returned, what it issued, the backend methods it called for the tag, and
\* what it reported; shaPlatform is the platform of the backend that resolved
\* the SHA ("none" when tag_sha was given).
RunRecord(ok, before, after, c, out) ==
    [ok |-> ok, before |-> before, after |-> after, platform |-> c.repoInfo.platform,
     sha |-> c.sha, shaPlatform |-> c.shaPlatform, result |-> c.result, cmds |-> c.cmds, calls |-> c.calls, out |-> out]

\* catch (error) { core.setFailed(...) }
\* Mutation: a failed run that reports outputs all the same.
FailedWithOutputs(out, error) == [out EXCEPT !.failed = TRUE, !.error = error, !.set = TRUE]

\* core.setFailed(error.message)
Failed(out, error) == [out EXCEPT !.failed = TRUE, !.error = error]

\* catch (error) { core.setFailed(...) }
SetFailed(w, c) ==
    /\ pc' = "failed"
    /\ world' = w
    /\ ctx' = c
    /\ outputs' = Failed(outputs, c.error)
    /\ hist' = Append(hist, RunRecord(FALSE, ctx.before, w, c, Failed(outputs, c.error)))

\* Mutation: the existing tag reported as updated.
ExistingReportedUpdated(sha) == Result(sha, TRUE, FALSE, TRUE)

\* The existing-unchanged result run() builds itself.
ExistingUnchanged(sha) == Result(sha, TRUE, FALSE, FALSE)

usePlatformAPI(useLocalGit, repoInfo) ==
    ~useLocalGit \/ (repoInfo.platform # "generic" /\ repoInfo.platform # "git")

TagOptions(inputs, sha) ==
    [sha |-> sha, message |-> inputs.tagMessage, gpgSign |-> inputs.gpgSign,
     force |-> inputs.force]

PlatformConfig(inputs, repoInfo) ==
    [pushTag |-> IF inputs.pushTag THEN "true" ELSE "false",
     hasUrl |-> repoInfo.url.kind = "url"]

\* A step of run(): whether it went on (ok) or threw, the world and the
\* locals after it.
Step(ok, w, c) == [ok |-> ok, w |-> w, ctx |-> c]

\* A step of run() that threw an error with the given message.
Throw(w, c, error) == Step(FALSE, w, [c EXCEPT !.error = error])

\* The message of the error a failed operation threw: it names the command
\* or request that failed.
ThrownBy(r) == IF r.cmds = <<>> THEN "Unknown error occurred" ELSE r.cmds[Len(r.cmds)]

\* run(): getRepositoryInfo, isGitRepository, usePlatformAPI
repositoryStep(c, w) ==
    LET repoInfo == getRepositoryInfo(c.inputs.repository, w)
        useLocalGit == isGitRepository(w)
    IN  IF ~repoInfo.found THEN Throw(w, c, "Could not determine repository information")
        ELSE Step(TRUE, w, [c EXCEPT !.repoInfo = repoInfo,
                                     !.useLocalGit = useLocalGit,
                                     !.usePlatformAPI = usePlatformAPI(useLocalGit, repoInfo)])

\* run(): if (!sha) throw, after getHeadSha returned h.
shaResolved(w, h, c) ==
    IF ~h.ok THEN Throw(w, c, ThrownBy(h))
    ELSE IF h.val # NoSha THEN Step(TRUE, w, [c EXCEPT !.sha = h.val])
    ELSE Throw(w, c, "Failed to resolve tag SHA")

\* run(): sha = await getHeadSha(), on the backend of the given platform.
shaFrom(c, w, h, platform) ==
    shaResolved(w, h, [c EXCEPT !.repoInfo.platform = platform,
                                !.shaPlatform = platform,
                                !.cmds = @ \o h.cmds])

\* run(): const { platform, api } = await createPlatformAPI(...), then
\* api.getHeadSha().
shaViaApi(c, w, fault, d) ==
    shaFrom(c, w, ApiGetHeadSha(d.api, w, fault), d.platform)

\* run(): let sha = inputs.tagSha; if (!sha) { ... }
shaStep(c, w, probes, fault) ==
    IF c.inputs.tagSha # NoSha THEN Step(TRUE, w, [c EXCEPT !.sha = c.inputs.tagSha])
    ELSE IF c.usePlatformAPI
    THEN shaViaApi(c, w, fault,
                   createPlatformAPI(c.repoInfo.url, c.inputs.repoType, probes))
    ELSE IF c.useLocalGit THEN shaFrom(c, w, getHeadSha(w), c.repoInfo.platform)
    ELSE Throw(w, c, "tag_sha is required when not running in a local Git repository")

\* run(): the push after the local createTag, best effort.
directMade(c, fault, made) ==
    IF made.ok /\ c.inputs.pushTag /\ c.repoInfo.url.kind = "url"
    THEN WithPush(made, pushTag(c.inputs.force, made.w, fault))
    ELSE made

\* What the tag operation of run() returned, with the methods of the backend
\* (platformAPI) it called, in order.
Called(r, calls) ==
    [calls |-> calls] @@ r

\* run(): Use local Git CLI directly (createTag, then a best-effort push); no
\* backend is constructed.
directStep(c, w, fault) ==
    Called(directMade(c, fault, createTag(TagOptions(c.inputs, c.sha), w, fault)), <<>>)

\* Mutation: createTag is called whether or not the tag exists.
apiCheckedAlwaysCreates(c, w, api, fault, exists) ==
    IF ~exists.ok THEN Called(Ret(w, FALSE, NoResult, exists.cmds), <<"tagExists">>)
    ELSE Called(After(exists, ApiCreateTag(api, TagOptions(c.inputs, c.sha),
                                           PlatformConfig(c.inputs, c.repoInfo), w, fault)),
                <<"tagExists", "createTag">>)

\* run(): after api.tagExists answered: nothing, updateTag or createTag.
apiChecked(c, w, api, fault, exists) ==
    IF ~exists.ok THEN Called(Ret(w, FALSE, NoResult, exists.cmds), <<"tagExists">>)
    ELSE IF exists.val /\ ~c.inputs.updateExisting
    THEN Called(Ret(w, TRUE, ExistingUnchanged(c.sha), exists.cmds), <<"tagExists">>)
    ELSE IF exists.val /\ c.inputs.updateExisting
    THEN Called(After(exists, ApiUpdateTag(api, TagOptions(c.inputs, c.sha),
                                           PlatformConfig(c.inputs, c.repoInfo), w, fault)),
                <<"tagExists", "updateTag">>)
    ELSE Called(After(exists, ApiCreateTag(api, TagOptions(c.inputs, c.sha),
                                           PlatformConfig(c.inputs, c.repoInfo), w, fault)),
                <<"tagExists", "createTag">>)

\* run(): Use platform API via factory: tagExists, then nothing, updateTag
\* or createTag.
apiStep(c, w, api, fault) ==
    apiChecked(c, w, api, fault, ApiTagExists(api, w, fault))

\* Mutation: the platform the factory returned is not stored in repoInfo.
tagDoneKeepsPlatform(c, r, platform) ==
    Step(r.ok, r.w, [c EXCEPT !.cmds = @ \o r.cmds,
                              !.result = r.val,
                              !.calls = r.calls,
                              !.error = IF r.ok THEN @ ELSE ThrownBy(r)])

\* The locals of run() after the tag operation r on the given platform.
tagDone(c, r, platform) ==
    Step(r.ok, r.w, [c EXCEPT !.cmds = @ \o r.cmds,
                              !.result = r.val,
                              !.calls = r.calls,
                              !.repoInfo.platform = platform,
                              !.error = IF r.ok THEN @ ELSE ThrownBy(r)])

\* run(): const { platform, api } = await createPlatformAPI(...), then the
\* tag operation on api.
tagViaApi(c, w, fault, d) ==
    CHOOSE s \in {tagDone(c, r, d.platform) : r \in {apiStep(c, w, d.api, fault)}} : TRUE

\* run(): if (useLocalGit && !usePlatformAPI) { ... } else { ... }
tagStep(c, w, probes, fault) ==
    IF c.useLocalGit /\ ~c.usePlatformAPI
    THEN tagDone(c, directStep(c, w, fault), c.repoInfo.platform)
    ELSE tagViaApi(c, w, fault,
                   createPlatformAPI(c.repoInfo.url, c.inputs.repoType, probes))

\* Mutation: the override is applied whether or not update_existing was
\* requested.
FinalResultAlwaysUpdated(inputs, result) ==
    [result EXCEPT !.updated = TRUE, !.exists = TRUE]

\* run(): the update_existing override of the result.
FinalResult(inputs, result) ==
    IF inputs.updateExisting /\ result.updated # TRUE
    THEN [result EXCEPT !.updated = TRUE, !.exists = TRUE]
    ELSE result

Outputs(result, platform) ==
    [set |-> TRUE, failed |-> FALSE, error |-> NoError, tag_sha |-> result.sha,
     tag_exists |-> result.exists, tag_updated |-> result.updated,
     tag_created |-> result.created, platform |-> platform]

\* Mutation: a step that threw is tried again instead of ending the run.
ContinueRetries(r, next) ==
    IF r.ok
    THEN /\ pc' = next
         /\ world' = r.w
         /\ ctx' = r.ctx
         /\ UNCHANGED <<outputs, hist>>
    ELSE /\ pc' = pc
         /\ world' = r.w
         /\ ctx' = ctx
         /\ UNCHANGED <<outputs, hist>>

\* The run goes on to the next step, or throws and is failed.
Continue(r, next) ==
    IF r.ok
    THEN /\ pc' = next
         /\ world' = r.w
         /\ ctx' = r.ctx
         /\ UNCHANGED <<outputs, hist>>
    ELSE SetFailed(r.w, r.ctx)

\* run(): const inputs = getInputs()
GetInputs ==
    /\ pc \in {"start", "done", "failed"}
    /\ Len(hist) < MaxRuns
    /\ \E c \in {[NoCtx(world) EXCEPT !.inputs = getInputs(actionInputs),
                                     !.error = getInputs(actionInputs).error]} :
         IF c.inputs.ok
         THEN /\ pc' = "repo"
              /\ ctx' = c
              /\ outputs' = NoOutputs
              /\ UNCHANGED <<world, hist>>
         ELSE /\ pc' = "failed"
              /\ ctx' = c
              /\ outputs' = Failed(NoOutputs, c.error)
              /\ hist' = Append(hist, RunRecord(FALSE, world, world, c,
                                                Failed(NoOutputs, c.error)))
              /\ UNCHANGED world
    /\ UNCHANGED <<actionInputs, call>>

GetRepositoryInfo ==
    /\ pc = "repo"
    /\ \E r \in {repositoryStep(ctx, world)} : Continue(r, "sha")
    /\ UNCHANGED <<actionInputs, call>>

ResolveSha ==
    /\ pc = "sha"
    /\ \E probes \in ProbeChoices(ctx.repoInfo.url, ctx.inputs.repoType),
          fault \in {NoFault, Fault("head", 500)} :
         \E r \in {shaStep(ctx, world, probes, fault)} : Continue(r, "tag")
    /\ UNCHANGED <<actionInputs, call>>

ReconcileTag ==
    /\ pc = "tag"
    /\ \E probes \in ProbeChoices(ctx.repoInfo.url, ctx.inputs.repoType), fault \in Faults :
         \E r \in {tagStep(ctx, world, probes, fault)} : Continue(r, "outputs")
    /\ UNCHANGED <<actionInputs, call>>

\* run(): Set outputs
SetOutputs ==
    /\ pc = "outputs"
    /\ \E result \in {FinalResult(ctx.inputs, ctx.result)} :
         \E out \in {Outputs(result, ctx.repoInfo.platform)} :
           /\ outputs' = out
           /\ ctx' = [ctx EXCEPT !.result = result]
           /\ hist' = Append(hist, RunRecord(TRUE, ctx.before, world, ctx, out))
    /\ pc' = "done"
    /\ UNCHANGED <<world, actionInputs, call>>

\* ------------------------------------------------------- Initial states
Messages == Strings(MaxMsgLen)
\* The existing tag a run may find: a lightweight tag at the first commit.
InitialTags == {NoTag, Lightweight(1)}

\* Where the repository is learned from: the repository input, the
\* checkout's origin remote, or the runner's environment.
GivenUrl == [repository |-> Url(<<"github", "com">>), origin |-> NoRepo, env |-> NoEnv]
GivenSlug == [repository |-> Slug, origin |-> NoRepo, env |-> NoEnv]
FromOrigin == [repository |-> NoRepo, origin |-> Url(<<"git", "example", "com">>),
               env |-> NoEnv]
FromEnv == [repository |-> NoRepo, origin |-> NoRepo, env |-> GitHubEnv]
Unknown == [repository |-> OtherText, origin |-> NoRepo, env |-> NoEnv]
RepoSources == {GivenUrl, GivenSlug, FromOrigin, FromEnv, Unknown}

\* A runner: a checkout or not, with no Git identity configured; the tag, if
\* it exists, exists in the checkout and on the remote; head is the commit
\* the checkout's HEAD is at, rhead the head of the remote default branch;
\* others counts the tags other actors have created on the remote.
World(isRepo, tag, src) ==
    [isRepo |-> isRepo,
     ltag |-> IF isRepo THEN tag ELSE NoTag,
     nameSet |-> FALSE, emailSet |-> FALSE,
     rtag |-> tag, origin |-> src.origin, env |-> src.env,
     head |-> HeadSha, rhead |-> HeadSha, others |-> 0]

\* The inputs of a run; tag_name and base_url are well-formed unless a
\* specification sets them otherwise.
RawInputs(src, sha, msg, repoType, update, sign, force, push) ==
    [tag_name |-> <<"v">>, tag_sha |-> sha, tag_message |-> msg,
     repository |-> src.repository, repo_type |-> repoType, base_url |-> NoUrl,
     update_existing |-> update, gpg_sign |-> sign, force |-> force, push_tag |-> push]

Init ==
    /\ \E src \in RepoSources, isRepo \in BOOLEAN, tag \in InitialTags,
          sha \in {NoSha} \cup Commits, msg \in Messages,
          repoType \in RepoTypes, update \in BOOLEAN, sign \in BOOLEAN,
          force \in BOOLEAN, push \in BOOLEAN :
         /\ repoType = "auto" \/ src \in {GivenUrl, GivenSlug}
         /\ world = World(isRepo, tag, src)
         /\ actionInputs = RawInputs(src, sha, msg, repoType, update, sign, force, push)
         /\ ctx = NoCtx(world)
    /\ pc = "start"
    /\ outputs = NoOutputs
    /\ hist = <<>>
    /\ call = NoCall

Next ==
    \/ GetInputs
    \/ GetRepositoryInfo
    \/ ResolveSha
    \/ ReconcileTag
    \/ SetOutputs

Spec == Init /\ [][Next]_vars

\* ----------------------------------------- Runs on any configuration
\* The run started on inputs as a workflow may write them, malformed ones
\* included, in a checkout or not, with the repository given by URL or slug.
InitConfig ==
    /\ \E src \in {GivenUrl, GivenSlug}, isRepo \in BOOLEAN, tag \in InitialTags,
          name \in TagNames, msg \in Messages, repoType \in RawRepoTypes,
          baseUrl \in BaseUrls, sign \in BOOLEAN :
         /\ world = World(isRepo, tag, src)
         /\ actionInputs = [RawInputs(src, HeadSha, msg, repoType, FALSE, sign, FALSE, TRUE)
                               EXCEPT !.tag_name = name, !.base_url = baseUrl]
         /\ ctx = NoCtx(world)
    /\ pc = "start"
    /\ outputs = NoOutputs
    /\ hist = <<>>
    /\ call = NoCall

SpecConfig == InitConfig /\ [][Next]_vars

\* ----------------------------------------- Runs that resolve the SHA
\* The run started without tag_sha, the checkout's HEAD and the head of the
\* remote default branch being any two commits.
InitHead ==
    /\ \E src \in RepoSources, isRepo \in BOOLEAN, tag \in InitialTags,
          head \in Commits, rhead \in Commits, repoType \in RepoTypes,
          update \in BOOLEAN, force \in BOOLEAN :
         /\ repoType = "auto" \/ src \in {GivenUrl, GivenSlug}
         /\ world = [World(isRepo, tag, src) EXCEPT !.head = head, !.rhead = rhead]
         /\ actionInputs = RawInputs(src, NoSha, <<>>, repoType, update, FALSE, force, TRUE)
         /\ ctx = NoCtx(world)
    /\ pc = "start"
    /\ outputs = NoOutputs
    /\ hist = <<>>
    /\ call = NoCall

SpecHead == InitHead /\ [][Next]_vars

\* ------------------------------------------ The factory called on its own
\* call: the arguments of one createPlatformAPI call and, once it has
\* returned, what it returned.
InitFactory ==
    /\ \E src \in {Unknown}, url \in Urls, repoType \in RepoTypes, probes \in ProbeResults :
         /\ world = World(FALSE, NoTag, src)
         /\ actionInputs = RawInputs(src, NoSha, <<>>, repoType, FALSE, FALSE, FALSE, TRUE)
         /\ call = [op |-> "createPlatformAPI", url |-> url, repoType |-> repoType,
                    probes |-> probes, returned |-> FALSE,
                    ret |-> Detected("generic", FALSE, <<>>)]
    /\ ctx = NoCtx(world)
    /\ pc = "start"
    /\ outputs = NoOutputs
    /\ hist = <<>>

FactoryCall ==
    /\ call.op = "createPlatformAPI"
    /\ ~call.returned
    /\ call' = [call EXCEPT !.returned = TRUE,
                            !.ret = createPlatformAPI(call.url, call.repoType, call.probes)]
    /\ UNCHANGED <<world, actionInputs, pc, ctx, outputs, hist>>

NextFactory == FactoryCall

SpecFactory == InitFactory /\ [][NextFactory]_vars

\* ------------------------------- The local adapter's createTag called on its own
LocalTags == {NoTag, Lightweight(1), Annotated(1, <<"r">>, FALSE)}

InitGit ==
    /\ \E op \in {"createTag", "ensureGitUserConfig"},
          isRepo \in BOOLEAN, tag \in LocalTags, nameSet \in BOOLEAN, emailSet \in BOOLEAN,
          sha \in Commits, msg \in Messages \cup {Undef}, sign \in BOOLEAN,
          force \in BOOLEAN, fault \in {NoFault, Fault("tag", 128)} :
         /\ op = "ensureGitUserConfig"
            => sha = HeadSha /\ msg = Undef /\ ~sign /\ ~force /\ fault = NoFault
         /\ world = [World(isRepo, tag, Unknown) EXCEPT !.nameSet = nameSet,
                                                        !.emailSet = emailSet,
                                                        !.rtag = NoTag]
         /\ call = [op |-> op,
                    options |-> [sha |-> sha, message |-> msg, gpgSign |-> sign,
                                 force |-> force],
                    fault |-> fault, before |-> world, returned |-> FALSE,
                    ret |-> Ret(world, FALSE, NoResult, <<>>)]
    /\ actionInputs = RawInputs(Unknown, NoSha, <<>>, "generic", FALSE, FALSE, FALSE, TRUE)
    /\ ctx = NoCtx(world)
    /\ pc = "start"
    /\ outputs = NoOutputs
    /\ hist = <<>>

CreateTagCall ==
    /\ call.op = "createTag"
    /\ ~call.returned
    /\ \E r \in {createTag(call.options, world, call.fault)} :
         /\ world' = r.w
         /\ call' = [call EXCEPT !.returned = TRUE, !.ret = r]
    /\ UNCHANGED <<actionInputs, pc, ctx, outputs, hist>>

\* One ensureGitUserConfig call; call.ret.val is what it returned.
EnsureGitUserConfigCall ==
    /\ call.op = "ensureGitUserConfig"
    /\ ~call.returned
    /\ \E r \in {ensureGitUserConfig(world)} :
         /\ world' = r.w
         /\ call' = [call EXCEPT !.returned = TRUE, !.ret = r]
    /\ UNCHANGED <<actionInputs, pc, ctx, outputs, hist>>

NextGit ==
    \/ CreateTagCall
    \/ EnsureGitUserConfigCall

SpecGit == InitGit /\ [][NextGit]_vars

\* ------------------------------------- A backend operation called on its own
\* One createTag or updateTag call on a backend constructed with a config
\* whose pushTag is true, false or not given, one kind of command or request
\* failing or none.
BackendOps == {"createTag", "updateTag"}
PushTagSettings == {"true", "false", "undefined"}
\* Or one tagExists or deleteTag call on a REST client, the request being
\* answered by the server, answered with some other status, or not answered.
ClientOps == {"tagExists", "deleteTag"}
RequestFaults ==
    {NoFault} \cup {Fault(q, s) : q \in {"get", "del"}, s \in {0, 401, 403, 404, 405, 500}}

InitBackend ==
    /\ \E platform \in Backends, op \in BackendOps \cup ClientOps, isRepo \in BOOLEAN,
          tag \in InitialTags, pushSetting \in PushTagSettings, hasUrl \in BOOLEAN,
          msg \in {Undef, <<"r">>}, force \in BOOLEAN, fault \in Faults \cup RequestFaults :
         /\ op \in BackendOps => fault \in Faults
         /\ op \in ClientOps
            => /\ platform \in Platforms /\ fault \in RequestFaults
               /\ ~isRepo /\ pushSetting = "true" /\ hasUrl /\ msg = Undef /\ ~force
         /\ world = World(isRepo, tag, Unknown)
         /\ call = [op |-> op, platform |-> platform,
                    options |-> [sha |-> HeadSha, message |-> msg, gpgSign |-> FALSE,
                                 force |-> force],
                    config |-> [pushTag |-> pushSetting, hasUrl |-> hasUrl],
                    fault |-> fault, before |-> world, returned |-> FALSE,
                    ret |-> Ret(world, FALSE, NoResult, <<>>)]
    /\ actionInputs = RawInputs(Unknown, NoSha, <<>>, "generic", FALSE, FALSE, FALSE, TRUE)
    /\ ctx = NoCtx(world)
    /\ pc = "start"
    /\ outputs = NoOutputs
    /\ hist = <<>>

BackendCreateTag ==
    /\ call.op = "createTag"
    /\ ~call.returned
    /\ \E r \in {ApiCreateTag(call.platform, call.options, call.config, world, call.fault)} :
         /\ world' = r.w
         /\ call' = [call EXCEPT !.returned = TRUE, !.ret = r]
    /\ UNCHANGED <<actionInputs, pc, ctx, outputs, hist>>

BackendUpdateTag ==
    /\ call.op = "updateTag"
    /\ ~call.returned
    /\ \E r \in {ApiUpdateTag(call.platform, call.options, call.config, world, call.fault)} :
         /\ world' = r.w
         /\ call' = [call EXCEPT !.returned = TRUE, !.ret = r]
    /\ UNCHANGED <<actionInputs, pc, ctx, outputs, hist>>

BackendTagExists ==
    /\ call.op = "tagExists"
    /\ ~call.returned
    /\ \E r \in {tagExists(world, call.fault)} :
         /\ world' = r.w
         /\ call' = [call EXCEPT !.returned = TRUE, !.ret = r]
    /\ UNCHANGED <<actionInputs, pc, ctx, outputs, hist>>

BackendDeleteTag ==
    /\ call.op = "deleteTag"
    /\ ~call.returned
    /\ \E r \in {deleteTag(call.platform, world, call.fault)} :
         /\ world' = r.w
         /\ call' = [call EXCEPT !.returned = TRUE, !.ret = r]
    /\ UNCHANGED <<actionInputs, pc, ctx, outputs, hist>>

NextBackend ==
    \/ BackendCreateTag
    \/ BackendUpdateTag
    \/ BackendTagExists
    \/ BackendDeleteTag

SpecBackend == InitBackend /\ [][NextBackend]_vars

\* ------------------------------------------------------- Token resolution
\* The token environment variables: each unset (Undef) or set to a value of
\* its own.
TokenVars == <<"GITHUB_TOKEN", "GITEA_TOKEN", "BITBUCKET_TOKEN">>
TokenValue(var) == <<var, "value">>
TokenEnvs == [{TokenVars[k] : k \in DOMAIN TokenVars} ->
                 {Undef} \cup {TokenValue(TokenVars[k]) : k \in DOMAIN TokenVars}]
ExplicitToken == <<"explicit-token">>

\* The environment variables looked at for a platform, in order.
TokenVarsOf(platform) ==
    CASE platform = "github" -> <<"GITHUB_TOKEN">>
      [] platform = "gitea" -> <<"GITEA_TOKEN", "GITHUB_TOKEN">>
      [] platform = "bitbucket" -> <<"BITBUCKET_TOKEN">>
      [] OTHER -> <<"GITHUB_TOKEN", "GITEA_TOKEN", "BITBUCKET_TOKEN">>

\* env[a] || env[b] || ... over the variables from position k on.
RECURSIVE FirstSet(_, _, _)
FirstSet(names, k, env) ==
    IF k > Len(names) THEN Undef
    ELSE IF Truthy(env[names[k]]) THEN env[names[k]]
    ELSE FirstSet(names, k + 1, env)

\* Mutation: the environment is preferred to the token given.
resolveTokenEnvFirst(token, platform, env) ==
    IF Truthy(FirstSet(TokenVarsOf(platform), 1, env))
    THEN FirstSet(TokenVarsOf(platform), 1, env)
    ELSE token

resolveToken(token, platform, env) ==
    IF Truthy(token) THEN token ELSE FirstSet(TokenVarsOf(platform), 1, env)

\* One resolveToken call.
InitToken ==
    /\ \E token \in {Undef, ExplicitToken}, platform \in Backends, env \in TokenEnvs :
         call = [op |-> "resolveToken", token |-> token, platform |-> platform,
                 env |-> env, returned |-> FALSE, ret |-> Undef]
    /\ world = World(FALSE, NoTag, Unknown)
    /\ actionInputs = RawInputs(Unknown, NoSha, <<>>, "generic", FALSE, FALSE, FALSE, TRUE)
    /\ ctx = NoCtx(world)
    /\ pc = "start"
    /\ outputs = NoOutputs
    /\ hist = <<>>

ResolveTokenCall ==
    /\ call.op = "resolveToken"
    /\ ~call.returned
    /\ call' = [call EXCEPT !.returned = TRUE,
                            !.ret = resolveToken(call.token, call.platform, call.env)]
    /\ UNCHANGED <<world, actionInputs, pc, ctx, outputs, hist>>

NextToken == ResolveTokenCall

SpecToken == InitToken /\ [][NextToken]_vars

\* ------------------------------------------ The Git commands of a push
\* The URL configured for the remote: none, or a URL of one of these forms,
\* with or without a user in it. new URL() parses the first three forms; it
\* rejects the scp-like form (git@host:path) and a malformed https:// URL.
UrlForms == {"https", "http", "ssh", "scp", "bad-https"}
NoRemoteUrl == [form |-> "none", user |-> Undef]
RemoteUrl(form, user) == [form |-> form, user |-> user]
RemoteUrls == {NoRemoteUrl} \cup {RemoteUrl(f, u) : f \in UrlForms, u \in {Undef, <<"git">>}}

\* A token as handed to pushTag / deleteTagRemote: undefined, empty, a secret.
SecretToken == <<"s3cret">>
Tokens == {Undef, <<>>, SecretToken}

\* An argument of a command: a word, or a URL (with the user it carries).
Word(s) == [word |-> s, user |-> Undef]
UrlArg(url) == [word |-> url.form, user |-> url.user]

\* injectTokenIntoUrl: urlObj.username = token when the URL parses, else the
\* token is spliced in after https:// or http://, else the URL is left alone.
injectTokenIntoUrl(url, token) ==
    IF url.form \in {"https", "http", "ssh", "bad-https"}
    THEN [url EXCEPT !.user = token]
    ELSE url

\* getRemoteUrl, then `git remote set-url <remote> <urlWithToken>`: the
\* commands run before the push when a token is given.
ConfigureToken(token, remoteUrl) ==
    IF ~Truthy(token) THEN <<>>
    ELSE IF remoteUrl = NoRemoteUrl
    THEN << <<Word("config"), Word("--get"), Word("remote.origin.url")>> >>
    ELSE << <<Word("config"), Word("--get"), Word("remote.origin.url")>>,
            <<Word("remote"), Word("set-url"), Word("origin"),
              UrlArg(injectTokenIntoUrl(remoteUrl, token))>> >>

\* pushTag: the argument vectors of the Git commands it executes.
pushTagArgs(token, remoteUrl, force) ==
    ConfigureToken(token, remoteUrl)
    \o << <<Word("push"), Word("origin"), Word("v")>>
          \o (IF force THEN <<Word("--force")>> ELSE <<>>) >>

\* deleteTagRemote: the argument vectors of the Git commands it executes.
deleteTagRemoteArgs(token, remoteUrl) ==
    ConfigureToken(token, remoteUrl)
    \o << <<Word("push"), Word("origin"), Word("--delete"), Word("v")>> >>

\* The URL of the remote stored in the repository's configuration after the
\* commands of ConfigureToken: `git remote set-url` stores the URL it is
\* given, and nothing in pushTag or deleteTagRemote sets it again.
ConfiguredUrlAfter(token, remoteUrl) ==
    IF Truthy(token) /\ remoteUrl # NoRemoteUrl
    THEN injectTokenIntoUrl(remoteUrl, token)
    ELSE remoteUrl

\* One pushTag or deleteTagRemote call, the push succeeding or exiting
\* non-zero; call.configured is the URL of the remote in the configuration,
\* call.threw whether the call ended with an error.
InitRemote ==
    /\ \E op \in {"pushTag", "deleteTagRemote"}, token \in Tokens,
          remoteUrl \in RemoteUrls, force \in BOOLEAN, pushFails \in BOOLEAN :
         call = [op |-> op, token |-> token, remoteUrl |-> remoteUrl, force |-> force,
                 pushFails |-> pushFails, configured |-> remoteUrl, threw |-> FALSE,
                 returned |-> FALSE, argvs |-> <<>>]
    /\ world = World(TRUE, Lightweight(1), Unknown)
    /\ actionInputs = RawInputs(Unknown, NoSha, <<>>, "generic", FALSE, FALSE, FALSE, TRUE)
    /\ ctx = NoCtx(world)
    /\ pc = "start"
    /\ outputs = NoOutputs
    /\ hist = <<>>

PushTagCall ==
    /\ call.op = "pushTag"
    /\ ~call.returned
    /\ call' = [call EXCEPT !.returned = TRUE,
                            !.argvs = pushTagArgs(call.token, call.remoteUrl, call.force),
                            !.configured = ConfiguredUrlAfter(call.token, call.remoteUrl),
                            !.threw = call.pushFails]
    /\ UNCHANGED <<world, actionInputs, pc, ctx, outputs, hist>>

DeleteTagRemoteCall ==
    /\ call.op = "deleteTagRemote"
    /\ ~call.returned
    /\ call' = [call EXCEPT !.returned = TRUE,
                            !.argvs = deleteTagRemoteArgs(call.token, call.remoteUrl),
                            !.configured = ConfiguredUrlAfter(call.token, call.remoteUrl),
                            !.threw = call.pushFails]
    /\ UNCHANGED <<world, actionInputs, pc, ctx, outputs, hist>>

NextRemote ==
    \/ PushTagCall
    \/ DeleteTagRemoteCall

SpecRemote == InitRemote /\ [][NextRemote]_vars

\* ------------------------------------------------------- Logger.logRequest
\* The headers of a request: not given, or an object with some of these
\* names; the Authorization header carries a secret or is empty.
HeaderOrder == <<"Authorization", "Content-Type", "Accept">>
HeaderNames == {HeaderOrder[k] : k \in DOMAIN HeaderOrder}
RawAuthorization == "token secret123"
Mask == "***"
HeaderValues(name) ==
    IF name = "Authorization" THEN {"", RawAuthorization}
    ELSE {"application/json", "text/plain"}
NoHeaders == [given |-> FALSE, fields |-> <<>>]
Headers(f) == [given |-> TRUE, fields |-> f]
HeaderSets ==
    {NoHeaders} \cup
    UNION {{Headers(f) : f \in {g \in [S -> UNION {HeaderValues(n) : n \in HeaderNames}] :
                                   \A n \in S : g[n] \in HeaderValues(n)}} :
           S \in SUBSET HeaderNames}

\* JSON.stringify(headers): the names and values, in order, from name k on.
RECURSIVE Stringify(_, _)
Stringify(f, k) ==
    IF k > Len(HeaderOrder) THEN <<>>
    ELSE IF HeaderOrder[k] \in DOMAIN f
    THEN <<HeaderOrder[k], f[HeaderOrder[k]]>> \o Stringify(f, k + 1)
    ELSE Stringify(f, k + 1)

\* Logger.debug: core.info with a [DEBUG] prefix when verbose, else core.debug.
debug(verbose, text) ==
    [level |-> IF verbose THEN "info" ELSE "debug",
     text |-> IF verbose THEN <<"[DEBUG]">> \o text ELSE text]

\* logRequest: const sanitizedHeaders = { ...headers }; the Authorization
\* header, when set and not empty, is replaced.
Sanitize(f) ==
    [n \in DOMAIN f |-> IF n = "Authorization" /\ f[n] # "" THEN Mask ELSE f[n]]

\* Mutation: the headers are logged as they are.
logRequestRaw(verbose, method, url, headers) ==
    IF ~verbose THEN <<>>
    ELSE <<debug(verbose, <<"HTTP", method, url>>)>>
         \o (IF headers.given
             THEN <<debug(verbose, <<"Headers:">> \o Stringify(headers.fields, 1))>>
             ELSE <<>>)

\* Logger.logRequest: the log entries it emits.
logRequest(verbose, method, url, headers) ==
    IF ~verbose THEN <<>>
    ELSE <<debug(verbose, <<"HTTP", method, url>>)>>
         \o (IF headers.given
             THEN <<debug(verbose, <<"Headers:">> \o Stringify(Sanitize(headers.fields), 1))>>
             ELSE <<>>)

\* One logRequest call on a logger constructed with or without verbose.
InitLogger ==
    /\ \E verbose \in BOOLEAN, method \in {"GET", "POST", "DELETE"}, headers \in HeaderSets :
         call = [op |-> "logRequest", verbose |-> verbose, method |-> method,
                 url |-> "https://example.com/api", headers |-> headers,
                 returned |-> FALSE, log |-> <<>>]
    /\ world = World(FALSE, NoTag, Unknown)
    /\ actionInputs = RawInputs(Unknown, NoSha, <<>>, "generic", FALSE, FALSE, FALSE, TRUE)
    /\ ctx = NoCtx(world)
    /\ pc = "start"
    /\ outputs = NoOutputs
    /\ hist = <<>>

LogRequestCall ==
    /\ call.op = "logRequest"
    /\ ~call.returned
    /\ call' = [call EXCEPT !.returned = TRUE,
                            !.log = logRequest(call.verbose, call.method, call.url,
                                               call.headers)]
    /\ UNCHANGED <<world, actionInputs, pc, ctx, outputs, hist>>

NextLogger == LogRequestCall

SpecLogger == InitLogger /\ [][NextLogger]_vars

\* ------------------------------------------------ Another actor on the remote
\* The requests of a client are awaited one by one; between two of them
\* another actor (a second workflow run, a person) may create the tag on the
\* hosting server, at any commit.
OtherActorCreatesTag ==
    /\ \/ call.op = "GiteaAPI.createTag" /\ call.stage \in {"checked", "deleted"}
       \/ call.op = "RestAPI.updateTag" /\ call.stage = "deleted"
       \/ call = NoCall /\ pc = "checked"
    /\ world.others < MaxOtherWrites
    /\ world.rtag = NoTag
    /\ \E c \in Commits :
         world' = [world EXCEPT !.rtag = Lightweight(c), !.others = @ + 1]
    /\ UNCHANGED <<actionInputs, pc, ctx, outputs, hist, call>>

\* -------------------------------------- GiteaAPI.createTag, request by request
\* call.stage: start, checked (tagExists has answered), deleted (the
\* deletion, if any, is done), returned. call.posted is whether the POST was
\* sent and call.answer the message of the error it was answered with.
ClientFaults == {NoFault} \cup HttpFaults \cup {Fault("post", 409), Fault("post", 405)}

InitGitea ==
    /\ \E tag \in InitialTags, msg \in {Undef, <<"r">>}, force \in BOOLEAN,
          fault \in ClientFaults :
         /\ world = World(FALSE, tag, Unknown)
         /\ call = [op |-> "GiteaAPI.createTag",
                    options |-> [sha |-> HeadSha, message |-> msg, gpgSign |-> FALSE,
                                 force |-> force],
                    fault |-> fault, before |-> world, stage |-> "start",
                    exists |-> Ret(world, FALSE, FALSE, <<>>),
                    deleted |-> Ret(world, FALSE, FALSE, <<>>),
                    atPost |-> world, posted |-> FALSE, answer |-> <<>>,
                    ret |-> Ret(world, FALSE, NoResult, <<>>)]
    /\ actionInputs = RawInputs(Unknown, NoSha, <<>>, "gitea", FALSE, FALSE, FALSE, TRUE)
    /\ ctx = NoCtx(world)
    /\ pc = "start"
    /\ outputs = NoOutputs
    /\ hist = <<>>

\* const existsOriginal = await this.tagExists(tagName)
GiteaTagExistsStep ==
    /\ call.op = "GiteaAPI.createTag" /\ call.stage = "start"
    /\ call' = [call EXCEPT !.stage = "checked", !.exists = tagExists(world, call.fault)]
    /\ UNCHANGED <<world, actionInputs, pc, ctx, outputs, hist>>

\* The check threw, or the tag exists and force is not set: createTag is
\* over; otherwise `if (existsOriginal && updateRequested) await deleteTag`.
GiteaDeleteStep ==
    /\ call.op = "GiteaAPI.createTag" /\ call.stage = "checked"
    /\ IF ~call.exists.ok \/ (call.exists.val /\ ~call.options.force)
       THEN /\ call' = [call EXCEPT !.stage = "returned",
                           !.ret = GiteaCreateTagChecked(call.options, world, call.fault,
                                                         call.exists)]
            /\ UNCHANGED world
       ELSE \E deleted \in {DeleteIfExists("gitea", world, call.fault, call.exists.val)} :
              /\ world' = deleted.w
              /\ call' = [call EXCEPT !.stage = "deleted", !.deleted = deleted]
    /\ UNCHANGED <<actionInputs, pc, ctx, outputs, hist>>

\* await this.client.post(createTagPath, tagData), its catch block and the
\* result.
GiteaPostStep ==
    /\ call.op = "GiteaAPI.createTag" /\ call.stage = "deleted"
    /\ \E r \in {GiteaPost(call.options, call.fault, call.exists,
                           [call.deleted EXCEPT !.w = world])} :
         /\ world' = r.w
         /\ call' = [call EXCEPT
                        !.stage = "returned", !.ret = r, !.atPost = world,
                        !.posted = call.deleted.ok,
                        !.answer = IF call.deleted.ok
                                   THEN ErrorMessage(PostStatus("post", world, call.fault),
                                                     PostSaid("post", world, call.fault))
                                   ELSE <<>>]
    /\ UNCHANGED <<actionInputs, pc, ctx, outputs, hist>>

NextGitea ==
    \/ GiteaTagExistsStep
    \/ GiteaDeleteStep
    \/ GiteaPostStep
    \/ OtherActorCreatesTag

SpecGitea == InitGitea /\ [][NextGitea]_vars

\* ------------------------------------ run(), with another actor on the remote
\* The tag operation of run() in two steps: the await of platformAPI.tagExists
\* and the await of what follows it; another actor may create the tag on the
\* remote in between.
InitRace ==
    /\ \E src \in {GivenUrl, GivenSlug}, isRepo \in BOOLEAN, tag \in InitialTags,
          repoType \in RepoTypes, update \in BOOLEAN, force \in BOOLEAN :
         /\ world = World(isRepo, tag, src)
         /\ actionInputs = RawInputs(src, HeadSha, <<>>, repoType, update, FALSE, force, TRUE)
         /\ ctx = NoCtx(world)
    /\ pc = "start"
    /\ outputs = NoOutputs
    /\ hist = <<>>
    /\ call = NoCall

\* run(): createPlatformAPI, then const exists = await platformAPI.tagExists()
CheckTag ==
    /\ pc = "tag"
    /\ ctx.usePlatformAPI \/ ~ctx.useLocalGit
    /\ \E probes \in ProbeChoices(ctx.repoInfo.url, ctx.inputs.repoType),
          fault \in {NoFault, Fault("get", 500)} :
         \E d \in {createPlatformAPI(ctx.repoInfo.url, ctx.inputs.repoType, probes)} :
           ctx' = [ctx EXCEPT !.api = d.api,
                              !.repoInfo.platform = d.platform,
                              !.exists = ApiTagExists(d.api, world, fault)]
    /\ pc' = "checked"
    /\ UNCHANGED <<world, actionInputs, outputs, hist, call>>

\* run(): what follows the existence check: nothing, updateTag or createTag.
ApplyTag ==
    /\ pc = "checked"
    /\ \E fault \in Faults :
         \E r \in {tagDone(ctx, apiChecked(ctx, world, ctx.api, fault, ctx.exists),
                           ctx.repoInfo.platform)} :
           Continue(r, "outputs")
    /\ UNCHANGED <<actionInputs, call>>

NextRace ==
    \/ GetInputs
    \/ GetRepositoryInfo
    \/ ResolveSha
    \/ CheckTag
    \/ OtherActorCreatesTag
    \/ ApplyTag
    \/ SetOutputs

SpecRace == InitRace /\ [][NextRace]_vars

\* ------------------------------ updateTag of a REST client, await by await
\* updateTag awaits deleteTag and then calls createTag; another actor may
\* create the tag on the hosting server in between. call.stage: start,
\* deleted (deleteTag has returned), returned; call.atCreate is the remote as
\* createTag found it.
ApiUpdateTagDeleted(platform, options, fault, deleted) ==
    CASE platform = "github" -> GitHubUpdateTagDeleted(options, fault, deleted)
      [] platform = "gitea" -> GiteaUpdateTagDeleted(options, fault, deleted)
      [] OTHER -> BitbucketUpdateTagDeleted(options, fault, deleted)

InitUpdate ==
    /\ \E platform \in Platforms, tag \in InitialTags, force \in BOOLEAN,
          fault \in ClientFaults :
         /\ world = World(FALSE, tag, Unknown)
         /\ call = [op |-> "RestAPI.updateTag", platform |-> platform,
                    options |-> [sha |-> HeadSha, message |-> Undef, gpgSign |-> FALSE,
                                 force |-> force],
                    fault |-> fault, before |-> world, stage |-> "start",
                    deleted |-> Ret(world, FALSE, FALSE, <<>>),
                    atCreate |-> world,
                    ret |-> Ret(world, FALSE, NoResult, <<>>)]
    /\ actionInputs = RawInputs(Unknown, NoSha, <<>>, "generic", FALSE, FALSE, FALSE, TRUE)
    /\ ctx = NoCtx(world)
    /\ pc = "start"
    /\ outputs = NoOutputs
    /\ hist = <<>>

\* await this.deleteTag(options.tagName)
UpdateDeleteStep ==
    /\ call.op = "RestAPI.updateTag" /\ call.stage = "start"
    /\ \E deleted \in {deleteTag(call.platform, world, call.fault)} :
         /\ world' = deleted.w
         /\ call' = [call EXCEPT !.stage = "deleted", !.deleted = deleted]
    /\ UNCHANGED <<actionInputs, pc, ctx, outputs, hist>>

\* return this.createTag(...), or the error of deleteTag thrown
UpdateCreateStep ==
    /\ call.op = "RestAPI.updateTag" /\ call.stage = "deleted"
    /\ \E r \in {ApiUpdateTagDeleted(call.platform, call.options, call.fault,
                                     [call.deleted EXCEPT !.w = world])} :
         /\ world' = r.w
         /\ call' = [call EXCEPT !.stage = "returned", !.ret = r, !.atCreate = world]
    /\ UNCHANGED <<actionInputs, pc, ctx, outputs, hist>>

NextUpdate ==
    \/ UpdateDeleteStep
    \/ OtherActorCreatesTag
    \/ UpdateCreateStep

SpecUpdate == InitUpdate /\ [][NextUpdate]_vars

\* ------------------------------------- Runs with several repository sources
\* The run started with any combination of the three places the repository
\* can be learned from: the repository input (empty, a URL, owner/repo, or
\* text that is neither), the origin remote of the checkout (none, a URL,
\* unparseable text) and the runner's environment variables.
GiteaEnv == [GITEA_REPOSITORY |-> TRUE, GITHUB_REPOSITORY |-> TRUE]
RepositoryInputs == {NoRepo, Url(<<"github", "com">>), Slug, OtherText}
Origins == {NoRepo, Url(<<"git", "example", "com">>), OtherText}
Envs == {NoEnv, GitHubEnv, GiteaEnv}

InitRepo ==
    /\ \E repository \in RepositoryInputs, origin \in Origins, env \in Envs,
          isRepo \in BOOLEAN, tag \in InitialTags :
         \E src \in {[repository |-> repository, origin |-> origin, env |-> env]} :
           /\ world = World(isRepo, tag, src)
           /\ actionInputs = RawInputs(src, HeadSha, <<>>, "auto", FALSE, FALSE, FALSE, TRUE)
           /\ ctx = NoCtx(world)
    /\ pc = "start"
    /\ outputs = NoOutputs
    /\ hist = <<>>
    /\ call = NoCall

SpecRepo == InitRepo /\ [][Next]_vars

\* ------------------------------------------------- Runs that are carried on
\* run() is a sequence of awaits with no loop. Every awaited Git subprocess
\* and HTTP request returns or fails, and every detection probe is cut off
\* by its timeout, so a step of a started run that can be taken is taken:
\* weak fairness on the steps after getInputs (at most one of them is
\* enabled at a time). Whether a run is started at all is up to the runner,
\* so GetInputs has no fairness.
Proceed ==
    \/ GetRepositoryInfo
    \/ ResolveSha
    \/ ReconcileTag
    \/ SetOutputs

InitLive ==
    /\ \E src \in RepoSources, isRepo \in BOOLEAN, tag \in InitialTags,
          sha \in {NoSha, HeadSha}, repoType \in RepoTypes, update \in BOOLEAN,
          sign \in BOOLEAN, force \in BOOLEAN :
         /\ repoType = "auto" \/ src \in {GivenUrl, GivenSlug}
         /\ world = World(isRepo, tag, src)
         /\ actionInputs = RawInputs(src, sha, <<>>, repoType, update, sign, force, TRUE)
         /\ ctx = NoCtx(world)
    /\ pc = "start"
    /\ outputs = NoOutputs
    /\ hist = <<>>
    /\ call = NoCall

SpecLive ==
    /\ InitLive
    /\ [][Next]_vars
    /\ WF_vars(Proceed)

\* ------------------------------------------------------------------ Claims
\* The finished runs, by position in hist.
Runs == DOMAIN hist
\* The tag a finished run found in, and left in, the store of its backend.
TagBefore(h) == StoreTag(h.platform, h.before)
TagAfter(h) == StoreTag(h.platform, h.after)
\* The three reported flags of a finished run.
Flags(h) == <<h.out.tag_exists, h.out.tag_created, h.out.tag_updated>>

DeleteCommands == {"tag -d", "DELETE tag"}
CreateCommands == {"tag", "tag -a -F -", "tag -s -F -", "POST tag", "POST ref"}
ConfigWrites == {"config --local user.name", "config --local user.email"}
Issued(cmds, S) == \E k \in DOMAIN cmds : cmds[k] \in S

\* C1: on one backend, when the tag exists and force and update_existing are
\* false, two successful runs in a row both report existed, not created, not
\* updated, and the tag after the second run is the tag before the first.
C1_RerunLeavesTag ==
    \A i \in Runs, j \in Runs :
        ( /\ j = i + 1
          /\ hist[i].ok /\ hist[j].ok
          /\ hist[i].platform = hist[j].platform
          /\ TagBefore(hist[i]) # NoTag
          /\ ~actionInputs.force /\ ~actionInputs.update_existing )
        => /\ Flags(hist[i]) = <<TRUE, FALSE, FALSE>>
           /\ Flags(hist[j]) = <<TRUE, FALSE, FALSE>>
           /\ TagAfter(hist[j]) = TagBefore(hist[i])

\* Two such runs have finished, asking for a commit other than the tagged one.
C1_Witness ==
    /\ Len(hist) = 2
    /\ hist[1].ok /\ hist[2].ok
    /\ hist[1].platform = hist[2].platform
    /\ TagBefore(hist[1]) # NoTag
    /\ ~actionInputs.force /\ ~actionInputs.update_existing
    /\ hist[1].sha # TagBefore(hist[1]).sha
    /\ Flags(hist[2]) = <<TRUE, FALSE, FALSE>>

\* C2: the local createTag, called for a tag that exists with force false,
\* issues no tag deletion, no tag creation and no configuration write.
C2_ExistingTagNoMutation ==
    ( /\ call.op = "createTag"
      /\ call.returned
      /\ tagExistsLocally(call.before)
      /\ ~call.options.force )
    => ~Issued(call.ret.cmds, DeleteCommands \cup CreateCommands \cup ConfigWrites)

\* An annotated tag is asked for, no identity is configured, the tag exists
\* and force is false: createTag returned after writing user.name and
\* user.email.
C2_ConfigWritten ==
    /\ call.op = "createTag" /\ call.returned
    /\ call.options.message = <<"r">> /\ ~call.options.gpgSign /\ ~call.options.force
    /\ call.fault = NoFault
    /\ call.before.ltag = Lightweight(1)
    /\ ~call.before.nameSet /\ ~call.before.emailSet
    /\ call.ret.ok
    /\ call.ret.val = Result(call.options.sha, TRUE, FALSE, FALSE)
    /\ Issued(call.ret.cmds, ConfigWrites)

\* C3: a successful run with force true against an existing tag reports
\* updated and leaves the tag at the requested commit.
C3_ForceMovesTag ==
    \A i \in Runs :
        (hist[i].ok /\ actionInputs.force /\ TagBefore(hist[i]) # NoTag)
        => /\ hist[i].out.tag_updated
           /\ TagAfter(hist[i]).sha = hist[i].sha

\* The generic backend, force true, update_existing false, the tag at
\* commit 1 and commit 2 requested: the run succeeded, reported no update and
\* left the tag at commit 1.
C3_TagLeftInPlace ==
    /\ Len(hist) = 1 /\ hist[1].ok
    /\ actionInputs.force /\ ~actionInputs.update_existing
    /\ hist[1].platform = "generic"
    /\ TagBefore(hist[1]) = Lightweight(1)
    /\ hist[1].sha = 2
    /\ hist[1].cmds = <<"rev-parse --verify">>
    /\ TagAfter(hist[1]) = Lightweight(1)
    /\ ~hist[1].out.tag_updated

\* C4: a successful run reports created-only, existed-only or existed and
\* updated; a tag that did not exist is never reported existed or updated.
C4_OneTerminalOutcome ==
    \A i \in Runs :
        hist[i].ok
        => /\ Flags(hist[i]) \in {<<FALSE, TRUE, FALSE>>, <<TRUE, FALSE, FALSE>>,
                                  <<TRUE, FALSE, TRUE>>, <<TRUE, TRUE, TRUE>>}
           /\ (TagBefore(hist[i]) = NoTag
               => (~hist[i].out.tag_exists /\ ~hist[i].out.tag_updated))

\* GitHub, update_existing true, no tag before the run: the run created the
\* tag and reported it as existing, created and updated.
C4_NewTagReportedUpdated ==
    /\ Len(hist) = 1 /\ hist[1].ok
    /\ actionInputs.update_existing
    /\ hist[1].platform = "github"
    /\ TagBefore(hist[1]) = NoTag
    /\ hist[1].cmds = <<"GET tag", "GET tag", "POST tag", "POST ref">>
    /\ TagAfter(hist[1]) # NoTag
    /\ Flags(hist[1]) = <<TRUE, TRUE, TRUE>>

\* C5: the tag_sha a successful run reports is what the tag points to when
\* the run ends (the commit, or the tag object of an annotated tag).
C5_ShaIsWhereTagPoints ==
    \A i \in Runs :
        hist[i].ok
        => /\ TagAfter(hist[i]) # NoTag
           /\ hist[i].out.tag_sha \in {TagAfter(hist[i]).sha, RefSha(TagAfter(hist[i]))}

\* GitHub, force and update_existing false, the tag at commit 1 and commit 2
\* requested: the run reported tag_sha 2 while the tag is at commit 1.
C5_RequestedShaEchoed ==
    /\ Len(hist) = 1 /\ hist[1].ok
    /\ ~actionInputs.force /\ ~actionInputs.update_existing
    /\ hist[1].platform = "github"
    /\ TagBefore(hist[1]) = Lightweight(1)
    /\ hist[1].sha = 2
    /\ hist[1].cmds = <<"GET tag">>
    /\ TagAfter(hist[1]) = Lightweight(1)
    /\ hist[1].out.tag_sha = 2

\* C6: a successful run with update_existing true against an existing tag
\* has deleted the tag and created it again at the requested commit.
C6_UpdateRecreatesTag ==
    \A i \in Runs :
        (hist[i].ok /\ actionInputs.update_existing /\ TagBefore(hist[i]) # NoTag)
        => /\ Issued(hist[i].cmds, DeleteCommands)
           /\ Issued(hist[i].cmds, CreateCommands)
           /\ TagAfter(hist[i]).sha = hist[i].sha

\* The generic backend, update_existing true, force false, the tag at commit
\* 1 and commit 2 requested: the run reported an update, deleted nothing
\* locally and left the tag at commit 1.
C6_LocalTagNotRecreated ==
    /\ Len(hist) = 1 /\ hist[1].ok
    /\ actionInputs.update_existing /\ ~actionInputs.force
    /\ hist[1].platform = "generic"
    /\ TagBefore(hist[1]) = Lightweight(1)
    /\ hist[1].sha = 2
    /\ hist[1].cmds = <<"rev-parse --verify", "rev-parse --verify">>
    /\ TagAfter(hist[1]) = Lightweight(1)
    /\ hist[1].out.tag_updated

\* C7: the tag a successful run wrote is lightweight when the message input
\* is absent or blank, and otherwise annotated with the trimmed message.
C7_MessageDecidesTagKind ==
    \A i \in Runs :
        (hist[i].ok /\ TagAfter(hist[i]) # NoTag /\ TagAfter(hist[i]) # TagBefore(hist[i]))
        => IF Trim(actionInputs.tag_message) = <<>>
           THEN TagAfter(hist[i]).kind = "commit" /\ TagAfter(hist[i]).msg = Undef
           ELSE /\ TagAfter(hist[i]).kind = "tag"
                /\ TagAfter(hist[i]).msg = Trim(actionInputs.tag_message)

\* GitHub, no message given, no tag before the run: the run created an
\* annotated tag carrying the default message.
C7_DefaultMessageStored ==
    /\ Len(hist) = 1 /\ hist[1].ok
    /\ actionInputs.tag_message = <<>>
    /\ hist[1].platform = "github"
    /\ TagBefore(hist[1]) = NoTag
    /\ hist[1].cmds = <<"GET tag", "GET tag", "POST tag", "POST ref">>
    /\ TagAfter(hist[1]) = Annotated(hist[1].sha, DefaultMessage, FALSE)

\* C8: called with a concrete repo type, the factory returns that platform
\* and its backend without looking at the hostname and without probing.
C8_ExplicitTypeVerbatim ==
    (call.op = "createPlatformAPI" /\ call.returned /\ call.repoType # "auto")
    => /\ call.ret.ok
       /\ call.ret.platform = call.repoType
       /\ call.ret.api = call.repoType
       /\ ~call.ret.hostInspected
       /\ call.ret.probed = <<>>

\* The factory has returned bitbucket for a github.com URL whose probes answer.
C8_Witness ==
    /\ call.op = "createPlatformAPI" /\ call.returned
    /\ call.repoType = "bitbucket"
    /\ call.url = Url(<<"github", "com">>)
    /\ call.probes = OneAnswers("gitea")
    /\ call.ret.platform = "bitbucket"

\* C9: with repo type auto and a hostname that matches exactly one
\* platform's rule, the factory returns that platform and probes nothing.
C9_HostnameDecides ==
    \A p \in Platforms :
        ( /\ call.op = "createPlatformAPI" /\ call.returned
          /\ call.repoType = "auto"
          /\ call.url.kind = "url"
          /\ {q \in Platforms : HostnameRule(q, call.url.host)} = {p} )
        => /\ call.ret.ok
           /\ call.ret.platform = p
           /\ call.ret.api = p
           /\ call.ret.probed = <<>>

\* The factory has returned gitea for a self-hosted Gitea hostname although
\* the GitHub probe would have answered.
C9_Witness ==
    /\ call.op = "createPlatformAPI" /\ call.returned
    /\ call.repoType = "auto"
    /\ call.url = Url(<<"mygitea", "example", "com">>)
    /\ call.probes = OneAnswers("github")
    /\ call.ret.platform = "gitea"

\* C10: with repo type auto, when the URL is absent or unparseable, or no
\* hostname rule matches and no probe answers, the factory returns generic
\* with the local-Git backend and does not throw.
C10_FallbackIsGeneric ==
    ( /\ call.op = "createPlatformAPI" /\ call.returned
      /\ call.repoType = "auto"
      /\ \/ call.url.kind # "url"
         \/ /\ \A p \in Platforms : ~HostnameRule(p, call.url.host)
            /\ \A p \in Platforms : call.probes[p] # "ok" )
    => /\ call.ret.ok
       /\ call.ret.platform = "generic"
       /\ call.ret.api = "generic"

\* The factory has returned generic after an error, a non-success status and
\* a timeout from the three probes.
C10_Witness ==
    /\ call.op = "createPlatformAPI" /\ call.returned
    /\ call.repoType = "auto"
    /\ call.url = Url(<<"git", "example", "com">>)
    /\ call.probes = [p \in Platforms |->
                        CASE p = "github" -> "error"
                          [] p = "gitea" -> "status"
                          [] OTHER -> "timeout"]
    /\ call.ret.probed = DetectionOrder
    /\ call.ret.platform = "generic"

\* C11: when the factory probes, it probes the candidates one after another
\* in the fixed order; a candidate that answers with an error, a non-success
\* status or a timeout is passed over and the next one is probed; the first
\* candidate that answers ok is the platform returned, and no candidate after
\* it is probed.
C11_ProbesInOrderUntilFirstOk ==
    (call.op = "createPlatformAPI" /\ call.returned /\ call.ret.probed # <<>>)
    => /\ call.ret.ok
       /\ call.ret.probed = SubSeq(DetectionOrder, 1, Len(call.ret.probed))
       /\ \A i \in 1..(Len(call.ret.probed) - 1) :
              call.probes[call.ret.probed[i]] # "ok"
       /\ IF call.probes[call.ret.probed[Len(call.ret.probed)]] = "ok"
          THEN call.ret.platform = call.ret.probed[Len(call.ret.probed)]
          ELSE /\ call.ret.probed = DetectionOrder
               /\ call.ret.platform = "generic"

\* The factory has returned gitea after the GitHub probe timed out; the
\* Bitbucket probe, which would have answered too, was not made.
C11_Witness ==
    /\ call.op = "createPlatformAPI" /\ call.returned
    /\ call.repoType = "auto"
    /\ call.url = Url(<<"git", "example", "com">>)
    /\ call.probes = [p \in Platforms |-> IF p = "github" THEN "timeout" ELSE "ok"]
    /\ call.ret.probed = <<"github", "gitea">>
    /\ call.ret.platform = "gitea"

\* The messages of the configuration errors the inputs have.
ConfigErrors(raw) ==
    {e \in {TagNameRequired, InvalidTagName, InvalidRepoType,
            GpgSignRequiresMessage, InvalidBaseUrl} :
        \/ e = TagNameRequired /\ Trim(raw.tag_name) = <<>>
        \/ e = InvalidTagName /\ HasSlash(raw.tag_name)
        \/ e = InvalidRepoType /\ raw.repo_type \in {"svn"}
        \/ e = GpgSignRequiresMessage /\ raw.gpg_sign /\ raw.tag_message = <<>>
        \/ e = InvalidBaseUrl /\ raw.base_url = InvalidUrl}

\* C12: a run whose inputs have a configuration error (empty or blank
\* tag_name, a tag_name with '/', an invalid repo_type, a malformed base_url,
\* gpg_sign without tag_message) fails with the message of such an error
\* before it has issued any Git command or network request, and leaves the
\* checkout and the remote as they were.
C12_ConfigErrorsBeforeAnyCommand ==
    \A i \in Runs :
        ConfigErrors(actionInputs) # {}
        => /\ ~hist[i].ok
           /\ hist[i].cmds = <<>>
           /\ hist[i].after = hist[i].before
           /\ hist[i].out.failed /\ ~hist[i].out.set
           /\ hist[i].out.error \in ConfigErrors(actionInputs)

\* A run in a checkout that holds the tag, with gpg_sign but no message and
\* a malformed base_url: it failed on the first of the two errors, having
\* issued nothing.
C12_Witness ==
    /\ Len(hist) = 1 /\ ~hist[1].ok
    /\ actionInputs.tag_name = <<"v">>
    /\ actionInputs.repo_type = "GitHub"
    /\ actionInputs.gpg_sign /\ actionInputs.tag_message = <<>>
    /\ actionInputs.base_url = InvalidUrl
    /\ world.isRepo /\ world.ltag # NoTag
    /\ hist[1].cmds = <<>>
    /\ hist[1].out.error = GpgSignRequiresMessage

\* C13: a run in which a step throws is marked failed with the message of
\* the error (that of getInputs or getRepositoryInfo when nothing was issued,
\* else that of the command or request that failed) and has set no output;
\* outputs are set only by a run that went through reconciliation to its end,
\* and such a run is not marked failed.
C13_NoOutputsOnFailure ==
    /\ \A i \in Runs :
          IF hist[i].ok
          THEN hist[i].out.set /\ ~hist[i].out.failed
          ELSE /\ hist[i].out.failed /\ ~hist[i].out.set
               /\ hist[i].out.error # NoError
               /\ hist[i].cmds # <<>> => hist[i].out.error = hist[i].cmds[Len(hist[i].cmds)]
    /\ outputs.set => (pc = "done" /\ ~outputs.failed /\ hist[Len(hist)].ok)
    /\ outputs.failed => (pc = "failed" /\ ~outputs.set /\ ~hist[Len(hist)].ok)

\* A run on GitHub failed when the POST of the ref was answered 500, after
\* the tag object had been posted: it is marked failed and has no outputs.
C13_Witness ==
    /\ Len(hist) = 1 /\ ~hist[1].ok
    /\ pc = "failed"
    /\ hist[1].platform = "github"
    /\ hist[1].cmds = <<"GET tag", "GET tag", "POST tag", "POST ref">>
    /\ outputs.failed /\ outputs.error = "POST ref"
    /\ ~outputs.set

\* A push was issued and failed: the remote does not hold what the checkout
\* holds afterwards.
PushFailed(h) ==
    /\ \E k \in DOMAIN h.cmds : h.cmds[k] \in {"push", "push --force"}
    /\ h.after.rtag # h.after.ltag

\* C14: on the local-Git backend, when the push to origin fails after the
\* local tag operation, the run still succeeds: the backend returns what the
\* local createTag returned, the checkout holds what the local createTag
\* left, and the outputs are those of that local result.
C14_PushFailureSwallowed ==
    \A i \in Runs :
        (hist[i].platform = "generic" /\ PushFailed(hist[i]))
        => /\ hist[i].ok
           /\ hist[i].result =
                  createTag(TagOptions(getInputs(actionInputs), hist[i].sha),
                            hist[i].before, NoFault).val
           /\ hist[i].after.ltag =
                  createTag(TagOptions(getInputs(actionInputs), hist[i].sha),
                            hist[i].before, NoFault).w.ltag
           /\ hist[i].out.set /\ ~hist[i].out.failed
           /\ Flags(hist[i]) =
                  <<FinalResult(getInputs(actionInputs), hist[i].result).exists,
                    FinalResult(getInputs(actionInputs), hist[i].result).created,
                    FinalResult(getInputs(actionInputs), hist[i].result).updated>>

\* A first run in a checkout created the tag locally, the push to origin
\* failed, and the run succeeded reporting the tag created.
C14_Witness ==
    /\ Len(hist) = 1 /\ hist[1].ok
    /\ hist[1].platform = "generic"
    /\ ~actionInputs.update_existing
    /\ hist[1].before.ltag = NoTag
    /\ hist[1].after.ltag # NoTag /\ hist[1].after.rtag = NoTag
    /\ hist[1].cmds[Len(hist[1].cmds)] = "push"
    /\ hist[1].out.tag_created /\ ~hist[1].out.failed

\* Whether a backend call issued a git push of any kind: of the tag, forced
\* or not, or of its deletion.
Pushed(cmds) == \E k \in DOMAIN cmds : cmds[k] \in {"push", "push --force", "push --delete"}

\* C15: a createTag or updateTag call on the local-Git backend issues a push
\* command only when its pushTag setting is not false (not given counts as
\* true) and a repository URL is known; a call on a REST backend never
\* issues one.
C15_PushOnlyWhenEnabled ==
    (call.op \in BackendOps /\ call.returned /\ Pushed(call.ret.cmds))
    => /\ call.platform = "generic"
       /\ call.config.pushTag # "false"
       /\ call.config.hasUrl

\* An updateTag call on the local-Git backend with pushTag false and a known
\* URL, the tag being in the checkout and on the remote: the remote tag was
\* deleted by a push, the local createTag found the tag and left it, and
\* nothing was pushed back.
C15_RemoteTagDeletedWithPushOff ==
    /\ call.op = "updateTag" /\ call.returned
    /\ call.platform = "generic"
    /\ call.config = [pushTag |-> "false", hasUrl |-> TRUE]
    /\ call.fault = NoFault /\ ~call.options.force
    /\ call.before.ltag # NoTag /\ call.before.rtag # NoTag
    /\ call.ret.ok
    /\ call.ret.cmds = <<"push --delete", "rev-parse --verify">>
    /\ world.ltag = call.before.ltag /\ world.rtag = NoTag

\* C16: resolveToken returns the token given whenever one is given, for
\* every platform; otherwise GITHUB_TOKEN for github, GITEA_TOKEN else
\* GITHUB_TOKEN for gitea, BITBUCKET_TOKEN for bitbucket, and for generic the
\* first that is set of GITHUB_TOKEN, GITEA_TOKEN, BITBUCKET_TOKEN; undefined
\* when none of the variables that apply is set.
C16_TokenResolution ==
    (call.op = "resolveToken" /\ call.returned)
    => IF call.token # Undef THEN call.ret = call.token
       ELSE /\ call.platform = "github" => call.ret = call.env["GITHUB_TOKEN"]
            /\ call.platform = "gitea"
               => call.ret = IF call.env["GITEA_TOKEN"] # Undef
                             THEN call.env["GITEA_TOKEN"]
                             ELSE call.env["GITHUB_TOKEN"]
            /\ call.platform = "bitbucket" => call.ret = call.env["BITBUCKET_TOKEN"]
            /\ call.platform = "generic"
               => call.ret = IF call.env["GITHUB_TOKEN"] # Undef
                             THEN call.env["GITHUB_TOKEN"]
                             ELSE IF call.env["GITEA_TOKEN"] # Undef
                             THEN call.env["GITEA_TOKEN"]
                             ELSE call.env["BITBUCKET_TOKEN"]

\* resolveToken called for gitea without a token, with GITHUB_TOKEN and
\* BITBUCKET_TOKEN set and GITEA_TOKEN not: it returned GITHUB_TOKEN's value.
C16_Witness ==
    /\ call.op = "resolveToken" /\ call.returned
    /\ call.token = Undef /\ call.platform = "gitea"
    /\ call.env["GITEA_TOKEN"] = Undef
    /\ call.env["GITHUB_TOKEN"] = TokenValue("GITHUB_TOKEN")
    /\ call.env["BITBUCKET_TOKEN"] = TokenValue("BITBUCKET_TOKEN")
    /\ call.ret = TokenValue("GITHUB_TOKEN")

\* The requests the REST clients send.
RestRequests == {"GET tag", "DELETE tag", "POST tag", "POST ref", "GET repo", "GET branch"}
UsedRest(h) == \E k \in DOMAIN h.cmds : h.cmds[k] \in RestRequests

\* C17: a run in a checked-out Git repository does all its tag operations
\* with the Git CLI; a run sends requests to a platform's REST API only when
\* there is no local checkout.
C17_CheckoutUsesGitCli ==
    \A i \in Runs :
        hist[i].before.isRepo => ~UsedRest(hist[i])

\* A run in a checkout, given a github.com repository URL, created the tag
\* through the GitHub REST API and left the checkout without the tag.
C17_RestUsedInCheckout ==
    /\ Len(hist) = 1 /\ hist[1].ok
    /\ hist[1].before.isRepo
    /\ actionInputs.repo_type = "auto"
    /\ hist[1].platform = "github"
    /\ hist[1].cmds = <<"GET tag", "GET tag", "POST tag", "POST ref">>
    /\ hist[1].after.ltag = NoTag /\ hist[1].after.rtag # NoTag

\* C18: a run without tag_sha in a local Git repository tags the commit the
\* checkout's HEAD is at, whatever platform it resolves: that commit is the
\* SHA it resolved and, when it created the tag, the commit the tag is on.
C18_OmittedShaIsLocalHead ==
    \A i \in Runs :
        (hist[i].ok /\ actionInputs.tag_sha = NoSha /\ hist[i].before.isRepo)
        => /\ hist[i].sha = hist[i].before.head
           /\ hist[i].result.created => TagAfter(hist[i]).sha = hist[i].before.head

\* A run without tag_sha in a checkout whose HEAD is at commit 2, given a
\* github.com URL whose default branch is at commit 1: it created the tag on
\* commit 1.
C18_RemoteHeadTagged ==
    /\ Len(hist) = 1 /\ hist[1].ok
    /\ actionInputs.tag_sha = NoSha
    /\ hist[1].before.isRepo
    /\ hist[1].before.head = 2 /\ hist[1].before.rhead = 1
    /\ hist[1].platform = "github"
    /\ hist[1].cmds = <<"GET repo", "GET branch", "GET tag", "GET tag", "POST tag", "POST ref">>
    /\ hist[1].result.created
    /\ hist[1].after.rtag.sha = 1
    /\ hist[1].out.tag_sha = 1

\* C19: when pushTag or deleteTagRemote is given a token, no argument of any
\* Git command it executes carries the token's value.
C19_TokenNotInArguments ==
    (call.op \in {"pushTag", "deleteTagRemote"} /\ call.returned /\ Truthy(call.token))
    => \A c \in DOMAIN call.argvs : \A a \in DOMAIN call.argvs[c] :
           call.argvs[c][a].user # call.token

\* pushTag given a token, the remote being an https URL: it ran
\* `git remote set-url origin <URL with the token as user>` before the push.
C19_TokenInSetUrl ==
    /\ call.op = "pushTag" /\ call.returned
    /\ call.token = SecretToken
    /\ call.remoteUrl = RemoteUrl("https", Undef)
    /\ Len(call.argvs) = 3
    /\ call.argvs[2] = <<Word("remote"), Word("set-url"), Word("origin"),
                         UrlArg(RemoteUrl("https", SecretToken))>>
    /\ call.argvs[3] = <<Word("push"), Word("origin"), Word("v")>>

\* Whether a log entry's text contains the word.
Shows(entry, word) == \E k \in DOMAIN entry.text : entry.text[k] = word

\* C20: a logRequest call on a verbose logger for a request that carries an
\* Authorization header emits no text containing the header's raw value: the
\* headers line shows the mask in its place; a call on a logger that is not
\* verbose emits nothing.
C20_AuthorizationMasked ==
    (call.op = "logRequest" /\ call.returned)
    => /\ ( /\ call.verbose /\ call.headers.given
            /\ "Authorization" \in DOMAIN call.headers.fields
            /\ call.headers.fields["Authorization"] = RawAuthorization )
          => /\ \A e \in DOMAIN call.log : ~Shows(call.log[e], RawAuthorization)
             /\ Len(call.log) = 2
             /\ \E k \in DOMAIN call.log[2].text :
                   /\ call.log[2].text[k] = "Authorization"
                   /\ call.log[2].text[k + 1] = Mask
       /\ ~call.verbose => call.log = <<>>

\* A verbose logger logged a POST with an Authorization and a Content-Type
\* header: the request line, then the headers with the mask.
C20_Witness ==
    /\ call.op = "logRequest" /\ call.returned
    /\ call.verbose /\ call.method = "POST"
    /\ call.headers = Headers([n \in {"Authorization", "Content-Type"} |->
                                 IF n = "Authorization" THEN RawAuthorization
                                 ELSE "application/json"])
    /\ call.log = << [level |-> "info",
                      text |-> <<"[DEBUG]", "HTTP", "POST", "https://example.com/api">>],
                     [level |-> "info",
                      text |-> <<"[DEBUG]", "Headers:", "Authorization", Mask,
                                 "Content-Type", "application/json">>] >>

\* The git tag commands that write a tag.
GitTagCommands == {"tag", "tag -a -F -", "tag -s -F -"}

BackendWrites ==
    DeleteCommands \cup CreateCommands \cup {"push", "push --force", "push --delete"}

\* C22: a run that gets to the tag operation calls the backend's tagExists
\* first; if that check throws the run fails there, and otherwise it does
\* exactly one of: no further call, no write and the existing-unchanged result
\* (the tag exists, update_existing false); one updateTag call (the tag
\* exists, update_existing true); one createTag call (the tag does not exist).
C22_CheckThenOneOperation ==
    \A i \in Runs :
        hist[i].calls # <<>>
        => /\ hist[i].calls[1] = "tagExists"
           /\ \/ ~hist[i].ok /\ hist[i].calls = <<"tagExists">>
                 /\ ~Issued(hist[i].cmds, BackendWrites)
              \/ /\ TagBefore(hist[i]) # NoTag /\ ~actionInputs.update_existing
                 /\ hist[i].ok
                 /\ hist[i].calls = <<"tagExists">>
                 /\ ~Issued(hist[i].cmds, BackendWrites)
                 /\ hist[i].result = ExistingUnchanged(hist[i].sha)
                 /\ hist[i].after = hist[i].before
              \/ /\ TagBefore(hist[i]) # NoTag /\ actionInputs.update_existing
                 /\ hist[i].calls = <<"tagExists", "updateTag">>
              \/ /\ TagBefore(hist[i]) = NoTag
                 /\ hist[i].calls = <<"tagExists", "createTag">>

\* A run with update_existing true found the tag on Gitea and called
\* updateTag, once, after the existence check.
C22_Witness ==
    /\ Len(hist) = 1 /\ hist[1].ok
    /\ actionInputs.update_existing
    /\ hist[1].platform = "gitea"
    /\ TagBefore(hist[1]) # NoTag
    /\ hist[1].calls = <<"tagExists", "updateTag">>
    /\ hist[1].cmds[1] = "GET tag"
    /\ Issued(hist[1].cmds, {"DELETE tag"})

\* C23: when a createTag or updateTag call on a backend has deleted the
\* existing tag and the creation that follows fails, the call reports the
\* failure with the tag still in the backend's store, at the commit it was on.
C23_FailedOverwriteKeepsTag ==
    ( /\ call.op \in BackendOps /\ call.returned
      /\ StoreTag(call.platform, call.before) # NoTag
      /\ Issued(call.ret.cmds, DeleteCommands)
      /\ call.ret.cmds[Len(call.ret.cmds)] \in CreateCommands
      /\ ~call.ret.ok )
    => /\ StoreTag(call.platform, world) # NoTag
       /\ StoreTag(call.platform, world).sha = StoreTag(call.platform, call.before).sha

\* An updateTag call on GitHub for a tag that exists, the POST of the tag
\* object being answered 500: the DELETE went through, the call threw, and
\* the tag is gone.
C23_TagLost ==
    /\ call.op = "updateTag" /\ call.returned
    /\ call.platform = "github"
    /\ call.before.rtag = Lightweight(1)
    /\ call.fault = Fault("post", 500)
    /\ ~call.ret.ok
    /\ call.ret.cmds = <<"DELETE tag", "GET tag", "POST tag">>
    /\ world.rtag = NoTag

\* The requests of the REST clients that write: DELETE and the POSTs.
WriteRequests == {"DELETE tag", "POST tag", "POST ref"}

\* C24: createTag of a REST client sends the existence check before any
\* write; when the tag exists and force is false it sends no write request
\* and returns {exists: true, created: false, updated: false}; when the tag
\* exists and force is true the DELETE comes right after the check, before
\* any creating POST, and no POST is sent unless the DELETE returned.
C24_CheckBeforeWrite ==
    (call.op = "createTag" /\ call.returned /\ call.platform \in Platforms)
    => /\ call.ret.cmds[1] = "GET tag"
       /\ (call.before.rtag # NoTag /\ call.fault.req # "get" /\ ~call.options.force)
          => /\ call.ret.ok
             /\ ~Issued(call.ret.cmds, WriteRequests)
             /\ call.ret.val = Result(call.options.sha, TRUE, FALSE, FALSE)
             /\ world = call.before
       /\ (call.before.rtag # NoTag /\ call.fault.req # "get" /\ call.options.force)
          => /\ call.ret.cmds[2] = "DELETE tag"
             /\ \A k \in DOMAIN call.ret.cmds : k > 2 => call.ret.cmds[k] # "DELETE tag"
             /\ (call.fault = Fault("del", 500)) => (~call.ret.ok /\ Len(call.ret.cmds) = 2)

\* createTag on Gitea with force true for a tag at another commit: check,
\* DELETE, POST, and the tag is at the requested commit.
C24_Witness ==
    /\ call.op = "createTag" /\ call.returned
    /\ call.platform = "gitea"
    /\ call.options.force /\ call.fault = NoFault
    /\ call.before.rtag = Lightweight(1)
    /\ call.ret.ok
    /\ call.ret.cmds = <<"GET tag", "DELETE tag", "POST tag">>
    /\ world.rtag.sha = call.options.sha

\* C25: when the POST of GiteaAPI.createTag is answered 409 with "tag already
\* exists", createTag does not throw: it returns {exists: true, created:
\* false, updated: false} with the requested sha, and the tag the POST found
\* is left as it was.
C25_ConflictIsExisting ==
    ( /\ call.op = "GiteaAPI.createTag" /\ call.stage = "returned"
      /\ call.posted
      /\ Includes(call.answer, "409") /\ Includes(call.answer, "tag already exists") )
    => /\ call.ret.ok
       /\ call.ret.val = Result(call.options.sha, TRUE, FALSE, FALSE)
       /\ world.rtag = call.atPost.rtag

\* createTag without force found no tag; another actor created it at commit
\* 1 before the POST, which was answered 409; createTag returned "exists".
C25_Witness ==
    /\ call.op = "GiteaAPI.createTag" /\ call.stage = "returned"
    /\ ~call.options.force /\ call.fault = NoFault
    /\ call.before.rtag = NoTag
    /\ call.exists.val = FALSE
    /\ world.others = 1
    /\ call.answer = <<"409", "tag already exists">>
    /\ call.ret.cmds = <<"GET tag", "POST tag">>
    /\ call.ret.val = Result(call.options.sha, TRUE, FALSE, FALSE)
    /\ world.rtag = Lightweight(1)

\* C27: when GiteaAPI.createTag returns {exists: true, created: false,
\* updated: false} it has deleted nothing, and the tag that existed when the
\* call started is still there, on the same commit.
C27_ExistingResultMeansNoWrite ==
    ( /\ call.op = "GiteaAPI.createTag" /\ call.stage = "returned"
      /\ call.ret.ok
      /\ call.ret.val = Result(call.options.sha, TRUE, FALSE, FALSE)
      /\ call.before.rtag # NoTag )
    => /\ ~Issued(call.ret.cmds, {"DELETE tag"}) \/ ~call.deleted.val
       /\ world.rtag # NoTag
       /\ world.rtag.sha = call.before.rtag.sha

\* createTag with force found the tag at commit 1 and deleted it; another
\* actor then created the tag at commit 2 and the POST was answered 409:
\* createTag returned "exists, not created, not updated" although it has
\* removed the tag it found.
C27_DeletedThenConflict ==
    /\ call.op = "GiteaAPI.createTag" /\ call.stage = "returned"
    /\ call.options.force /\ call.fault = NoFault
    /\ call.before.rtag = Lightweight(1)
    /\ call.deleted.ok /\ call.deleted.val
    /\ world.others = 1
    /\ call.answer = <<"409", "tag already exists">>
    /\ call.ret.ok
    /\ call.ret.cmds = <<"GET tag", "DELETE tag", "POST tag">>
    /\ call.ret.val = Result(call.options.sha, TRUE, FALSE, FALSE)
    /\ world.rtag = Lightweight(2)

\* Another actor created the tag on the remote during the run.
Raced(h) == h.after.others > h.before.others

\* C26: a run on a REST backend with force and update_existing false whose
\* existence check saw no tag, and during which another actor created the
\* tag before the backend's createTag made its own check, sends no DELETE
\* and no POST and leaves that tag as it is; it fails only if createTag's
\* own GET fails, and otherwise reports existed, not created, not updated.
C26_RacingTagRespected ==
    \A i \in Runs :
        ( /\ hist[i].platform \in Platforms
          /\ hist[i].calls = <<"tagExists", "createTag">>
          /\ Raced(hist[i])
          /\ ~actionInputs.force /\ ~actionInputs.update_existing )
        => /\ ~Issued(hist[i].cmds, WriteRequests)
           /\ hist[i].after.rtag # NoTag
           /\ IF hist[i].ok
              THEN /\ hist[i].cmds = <<"GET tag", "GET tag">>
                   /\ Flags(hist[i]) = <<TRUE, FALSE, FALSE>>
              ELSE hist[i].out.error = "GET tag"

\* A run on GitHub saw no tag; another actor created it at commit 1; the
\* run's createTag found it and the run reported "existed".
C26_Witness ==
    /\ Len(hist) = 1 /\ hist[1].ok
    /\ hist[1].platform = "github"
    /\ ~actionInputs.force /\ ~actionInputs.update_existing
    /\ hist[1].before.rtag = NoTag
    /\ Raced(hist[1])
    /\ hist[1].calls = <<"tagExists", "createTag">>
    /\ hist[1].cmds = <<"GET tag", "GET tag">>
    /\ hist[1].after.rtag = Lightweight(1)
    /\ Flags(hist[1]) = <<TRUE, FALSE, FALSE>>

\* C28: in a run without tag_sha, the backend that resolved the HEAD SHA and
\* the backend that did the tag operation are of the same platform.
C28_OneBackendPerRun ==
    \A i \in Runs :
        (hist[i].shaPlatform # "none" /\ hist[i].calls # <<>>)
        => hist[i].platform = hist[i].shaPlatform

\* A run without tag_sha in a checkout whose origin matches no hostname rule:
\* the Gitea probe answered for the first factory call and not for the
\* second; the SHA is the head of the Gitea default branch (commit 1), and the
\* tag was created on it by the local-Git backend, the checkout being at
\* commit 2.
C28_TwoBackends ==
    /\ Len(hist) = 1 /\ hist[1].ok
    /\ actionInputs.tag_sha = NoSha
    /\ hist[1].before.isRepo
    /\ hist[1].before.head = 2 /\ hist[1].before.rhead = 1
    /\ hist[1].shaPlatform = "gitea"
    /\ hist[1].platform = "generic"
    /\ hist[1].sha = 1
    /\ hist[1].after.ltag = Lightweight(1)
    /\ hist[1].out.platform = "generic"

\* C29: tagExists of a REST client returns true when the GET succeeds,
\* returns false when and only when the GET is answered 404, and throws for
\* any other status and for a request that got no response; it changes
\* nothing on the server.
C29_TagExistsClassifies ==
    (call.op = "tagExists" /\ call.returned)
    => /\ IsSuccess(GetStatus(call.before, call.fault))
          => (call.ret.ok /\ call.ret.val = TRUE)
       /\ GetStatus(call.before, call.fault) = 404
          => (call.ret.ok /\ call.ret.val = FALSE)
       /\ (~IsSuccess(GetStatus(call.before, call.fault))
           /\ GetStatus(call.before, call.fault) # 404)
          => ~call.ret.ok
       /\ call.ret.cmds = <<"GET tag">>
       /\ world = call.before

\* tagExists on Bitbucket threw when the GET was answered 403 although the
\* tag is there.
C29_Witness ==
    /\ call.op = "tagExists" /\ call.returned
    /\ call.platform = "bitbucket"
    /\ call.before.rtag # NoTag
    /\ call.fault = Fault("get", 403)
    /\ ~call.ret.ok

\* C30: deleteTag of a REST client returns when the DELETE succeeds (the tag
\* is gone) and when it is answered 404 (nothing changes); when it is
\* answered 405 it returns on Gitea only; for any other status, and for a
\* request that got no response, it throws and the tag stays.
C30_DeleteToleratesGone ==
    (call.op = "deleteTag" /\ call.returned)
    => /\ IsSuccess(DeleteStatus(call.before, call.fault))
          => (call.ret.ok /\ world.rtag = NoTag)
       /\ DeleteStatus(call.before, call.fault) = 404
          => (call.ret.ok /\ world = call.before)
       /\ DeleteStatus(call.before, call.fault) = 405
          => (call.ret.ok <=> call.platform = "gitea") /\ world = call.before
       /\ (~IsSuccess(DeleteStatus(call.before, call.fault))
           /\ DeleteStatus(call.before, call.fault) \notin {404, 405})
          => (~call.ret.ok /\ world = call.before)
       /\ call.ret.cmds = <<"DELETE tag">>

\* deleteTag on Gitea returned when the DELETE was answered 405, the tag
\* being still there.
C30_Witness ==
    /\ call.op = "deleteTag" /\ call.returned
    /\ call.platform = "gitea"
    /\ call.fault = Fault("del", 405)
    /\ call.ret.ok
    /\ world.rtag = Lightweight(1)

\* The number of commands of cmds that are in S.
Attempts(cmds, S) == Cardinality({k \in DOMAIN cmds : cmds[k] \in S})

\* C31: when the POST of GiteaAPI.createTag is answered 404 or 405, createTag
\* sends exactly one more request, the POST of refs/tags/<name> at the target
\* sha, as its last request; if that is accepted, createTag returns the
\* result of a creation (created exactly when the tag was absent at the
\* existence check) and the tag is a lightweight tag at the target sha; if
\* it is refused, createTag throws and the tag is as the POST found it. Any
\* other refusal of the POST, except 409 "tag already exists", is thrown
\* with no request after the POST.
C31_FallbackToRefs ==
    (call.op = "GiteaAPI.createTag" /\ call.stage = "returned" /\ call.posted)
    => /\ (Includes(call.answer, "404") \/ Includes(call.answer, "405"))
          => /\ Attempts(call.ret.cmds, {"POST ref"}) = 1
             /\ call.ret.cmds[Len(call.ret.cmds)] = "POST ref"
             /\ call.ret.cmds[Len(call.ret.cmds) - 1] = "POST tag"
             /\ IF call.atPost.rtag = NoTag \/ call.fault.req = "ref"
                   THEN /\ call.ret.ok <=> (call.fault.req # "ref")
                        /\ call.ret.ok
                           => /\ world.rtag = Lightweight(call.options.sha)
                              /\ call.ret.val.sha = call.options.sha
                              /\ call.ret.val.created = ~call.exists.val
                   ELSE ~call.ret.ok
             /\ ~call.ret.ok => world = call.atPost
       /\ ( /\ ~IsSuccess(PostStatus("post", call.atPost, call.fault))
            /\ ~Includes(call.answer, "404") /\ ~Includes(call.answer, "405")
            /\ ~(Includes(call.answer, "409")
                 /\ Includes(call.answer, "tag already exists")) )
          => /\ ~call.ret.ok
             /\ Attempts(call.ret.cmds, {"POST ref"}) = 0
             /\ call.ret.cmds[Len(call.ret.cmds)] = "POST tag"
             /\ world = call.atPost

\* The POST was answered 405 after the existing tag had been deleted under
\* force: the POST of the ref was accepted and the tag is a lightweight tag
\* at the target sha.
C31_Witness ==
    /\ call.op = "GiteaAPI.createTag" /\ call.stage = "returned"
    /\ call.fault = Fault("post", 405)
    /\ call.exists.val /\ call.options.force
    /\ call.ret.ok
    /\ call.ret.cmds = <<"GET tag", "DELETE tag", "POST tag", "POST ref">>
    /\ world.rtag = Lightweight(call.options.sha)

\* C31 as stated: whenever the POST of the ref is accepted, the result says
\* created.
C31_FallbackReportsCreated ==
    ( /\ call.op = "GiteaAPI.createTag" /\ call.stage = "returned" /\ call.posted
      /\ (Includes(call.answer, "404") \/ Includes(call.answer, "405"))
      /\ call.ret.ok )
    => call.ret.val.created = TRUE

\* C32: updateTag of a REST client that has deleted the tag returns what
\* createTag with force set returns on the remote as it is then, whatever
\* the force flag of the request.
C32_RecreateForced ==
    (call.op = "RestAPI.updateTag" /\ call.stage = "returned" /\ call.deleted.ok)
    => call.ret = After(call.deleted,
                        ApiCreateTag(call.platform, [call.options EXCEPT !.force = TRUE],
                                     [pushTag |-> "true", hasUrl |-> TRUE],
                                     call.atCreate, call.fault))

\* GitHubAPI.updateTag without force deleted the tag; another actor created
\* it at another commit before the recreation, which then answered "exists"
\* and left that tag in place.
C32_RecreateNotForced ==
    /\ call.op = "RestAPI.updateTag" /\ call.stage = "returned"
    /\ call.platform = "github"
    /\ ~call.options.force
    /\ call.before.rtag # NoTag
    /\ call.ret.ok
    /\ call.ret.cmds = <<"DELETE tag", "GET tag">>
    /\ call.ret.val = Result(call.options.sha, TRUE, FALSE, FALSE)
    /\ world.rtag = Lightweight(1)
    /\ call.options.sha # 1

\* C33: in one run no writing command or request is issued twice: at most one
\* DELETE of the tag, one deletion of the local tag, one deletion by push,
\* one git tag command, one push, one POST of the tag and one POST of its
\* ref, whatever the backend and whether the tag is created or updated.
C33_EachWriteOnce ==
    \A i \in Runs :
        /\ Attempts(hist[i].cmds, {"DELETE tag"}) <= 1
        /\ Attempts(hist[i].cmds, {"tag -d"}) <= 1
        /\ Attempts(hist[i].cmds, {"push --delete"}) <= 1
        /\ Attempts(hist[i].cmds, GitTagCommands) <= 1
        /\ Attempts(hist[i].cmds, {"push", "push --force"}) <= 1
        /\ Attempts(hist[i].cmds, {"POST tag"}) <= 1
        /\ Attempts(hist[i].cmds, {"POST ref"}) <= 1

\* A run with update_existing on Gitea whose DELETE was answered 405: the
\* tag is still there when createTag checks, and createTag sends the DELETE
\* a second time.
C33_DeleteSentTwice ==
    \E i \in Runs :
        /\ hist[i].platform = "gitea"
        /\ hist[i].calls = <<"tagExists", "updateTag">>
        /\ Attempts(hist[i].cmds, {"DELETE tag"}) = 2
        /\ hist[i].after.rtag = hist[i].before.rtag

\* C34: the outputs of a successful run are the outcome its backend returned,
\* except when update_existing was requested and the outcome's updated flag
\* is not true: then tag_updated and tag_exists are reported true, and
\* tag_sha and tag_created are the outcome's.
C34_OutputsAreOutcome ==
    \A i \in Runs :
        hist[i].ok
        => /\ hist[i].out.tag_sha = hist[i].result.sha
           /\ hist[i].out.tag_created = hist[i].result.created
           /\ IF getInputs(actionInputs).updateExisting /\ hist[i].result.updated # TRUE
              THEN hist[i].out.tag_updated = TRUE /\ hist[i].out.tag_exists = TRUE
              ELSE /\ hist[i].out.tag_updated = hist[i].result.updated
                   /\ hist[i].out.tag_exists = hist[i].result.exists

\* A run with update_existing found no tag and created it: the backend
\* returned created, not existing, not updated, and the run reported
\* created, existing and updated.
C34_Witness ==
    \E i \in Runs :
        /\ hist[i].ok
        /\ getInputs(actionInputs).updateExisting
        /\ hist[i].calls = <<"tagExists", "createTag">>
        /\ hist[i].result.created /\ ~hist[i].result.exists /\ ~hist[i].result.updated
        /\ Flags(hist[i]) = <<TRUE, TRUE, TRUE>>

\* Whether a repository text parses (a URL or owner/repo), and the URL it
\* gives.
Parses(text) == text.kind \in {"url", "slug"}
UrlOf(text) == IF text.kind = "url" THEN text ELSE NoUrl

C36_PlatformIsTheBackend ==
    \A i \in Runs :
        hist[i].ok
        => /\ hist[i].out.platform \in Backends
           /\ hist[i].out.platform = "generic"
              <=> Issued(hist[i].cmds, {"rev-parse --verify"})
           /\ hist[i].out.platform \in Platforms <=> Issued(hist[i].cmds, {"GET tag"})
           /\ actionInputs.repo_type # "auto"
              => hist[i].out.platform = actionInputs.repo_type
           /\ ( /\ actionInputs.repo_type = "auto"
                /\ actionInputs.repository.kind = "url"
                /\ DetectByHostname(actionInputs.repository.host) # "none" )
              => hist[i].out.platform = DetectByHostname(actionInputs.repository.host)

\* A run given tag_sha, with repo_type auto and a repository known from the
\* origin of the checkout whose hostname no platform recognises: the Gitea
\* probe answered, the tag was created through the Gitea API and the
\* platform output is gitea.
C36_Witness ==
    \E i \in Runs :
        /\ hist[i].ok
        /\ actionInputs.repo_type = "auto"
        /\ actionInputs.tag_sha # NoSha
        /\ hist[i].before.origin = Url(<<"git", "example", "com">>)
        /\ hist[i].cmds = <<"GET tag", "GET tag", "POST tag">>
        /\ hist[i].out.platform = "gitea"

\* The commands of cmds that are not reads of the configuration.
ConfigReads == {"config --get user.name", "config --get user.email"}
WritesOf(cmds) == {cmds[k] : k \in DOMAIN cmds} \ ConfigReads

\* C37: ensureGitUserConfig, when user.name and user.email are both set,
\* returns false having issued no write; otherwise, in a repository, it
\* returns true having written with --local exactly the keys that were
\* unset, so never a key that was set; outside a repository the first such
\* write is refused, the error is thrown and the configuration is as it was.
\* No other command than the two reads and these writes is issued.
C37_WritesOnlyUnsetKeys ==
    (call.op = "ensureGitUserConfig" /\ call.returned)
    => /\ WritesOf(call.ret.cmds) \subseteq ConfigWrites
       /\ call.before.nameSet => "config --local user.name" \notin WritesOf(call.ret.cmds)
       /\ call.before.emailSet => "config --local user.email" \notin WritesOf(call.ret.cmds)
       /\ IF call.before.nameSet /\ call.before.emailSet
          THEN /\ call.ret.ok /\ call.ret.val = FALSE
               /\ WritesOf(call.ret.cmds) = {}
               /\ world = call.before
          ELSE IF call.before.isRepo
          THEN /\ call.ret.ok /\ call.ret.val = TRUE
               /\ WritesOf(call.ret.cmds)
                  = (IF call.before.nameSet THEN {} ELSE {"config --local user.name"})
                    \cup (IF call.before.emailSet THEN {} ELSE {"config --local user.email"})
               /\ Attempts(call.ret.cmds, ConfigWrites) = Cardinality(WritesOf(call.ret.cmds))
               /\ world = [call.before EXCEPT !.nameSet = TRUE, !.emailSet = TRUE]
          ELSE /\ ~call.ret.ok
               /\ Cardinality(WritesOf(call.ret.cmds)) = 1
               /\ world = call.before

\* In a repository where user.name is set and user.email is not,
\* ensureGitUserConfig wrote user.email alone and returned true.
C37_Witness ==
    /\ call.op = "ensureGitUserConfig" /\ call.returned
    /\ call.before.isRepo
    /\ call.before.nameSet /\ ~call.before.emailSet
    /\ call.ret.ok /\ call.ret.val = TRUE
    /\ call.ret.cmds = <<"config --get user.name", "config --get user.email",
                         "config --local user.email">>
    /\ world.emailSet

\* C38: after a pushTag or deleteTagRemote call, whether it returned or
\* threw, the URL of the remote stored in the repository's configuration is
\* the one stored before the call.
C38_RemoteUrlAsBefore ==
    (call.op \in {"pushTag", "deleteTagRemote"} /\ call.returned)
    => call.configured = call.remoteUrl

\* deleteTagRemote given a token, the remote being an https URL with the
\* user git: the push exited non-zero, and the URL left in the configuration
\* is the one with the token as user.
C38_TokenUrlLeft ==
    /\ call.op = "deleteTagRemote" /\ call.returned
    /\ call.token = SecretToken
    /\ call.remoteUrl = RemoteUrl("https", <<"git">>)
    /\ call.threw
    /\ call.configured = RemoteUrl("https", SecretToken)

\* C39: a createTag or updateTag call on the local-Git backend issues a push
\* of the tag only when the local createTag created the tag (created is
\* true in its result).
C39_PushOnlyAfterCreation ==
    ( /\ call.op \in BackendOps /\ call.platform = "generic" /\ call.returned
      /\ Issued(call.ret.cmds, {"push", "push --force"}) )
    => call.ret.ok /\ call.ret.val.created

\* createTag on the local-Git backend, the tag existing and force false:
\* the local createTag answered existing, not created, not updated, and the
\* push was issued all the same.
C39_UnchangedTagPushed ==
    /\ call.op = "createTag" /\ call.platform = "generic" /\ call.returned
    /\ call.before.ltag = Lightweight(1)
    /\ ~call.options.force
    /\ call.fault = NoFault
    /\ call.ret.ok
    /\ call.ret.val = Result(call.options.sha, TRUE, FALSE, FALSE)
    /\ call.ret.cmds = <<"rev-parse --verify", "push">>

\* A run is under way; a run has ended.
Running == pc \in {"repo", "sha", "tag", "outputs"}
Terminated == pc \in {"done", "failed"}

\* C40: a run that is under way ends; and when a run has ended, either its
\* outputs are set and it is not marked failed, or it is marked failed and
\* its outputs are not set; while it is under way neither has happened.
C40_RunTerminatesOneWay ==
    /\ Running ~> Terminated
    /\ [](Terminated => (outputs.set /\ ~outputs.failed) \/ (outputs.failed /\ ~outputs.set))
    /\ [](Running => ~outputs.set /\ ~outputs.failed)

\* A run without tag_sha ended marked failed, the GET of the repository for
\* the HEAD SHA having been answered 500, with no output set; a second run
\* has not been started.
C40_Witness ==
    /\ pc = "failed"
    /\ Len(hist) = 1
    /\ hist[1].cmds = <<"GET repo">>
    /\ outputs.failed /\ ~outputs.set
    /\ outputs.error = "GET repo"

====
